---- MODULE Spec2Model ----
(***************************************************************************)
(* Forum (AI brainstormer): the persona response generator, the in-memory *)
(* session graph service, the HTTP handlers that combine them, the rate   *)
(* limiter in front of them, and the client's store and request handlers. *)
(*                                                                         *)
(* Strings are modelled by their shape: a text is a record                 *)
(* [lead, body, trail], the number of leading whitespace characters, the   *)
(* length of the part between the first and the last non-whitespace        *)
(* character, and the number of trailing whitespace characters.            *)
(* uuidv4() is modelled by a counter: every call yields an id never given  *)
(* before.  Session.createdAt and Node.position (always {0,0} on the       *)
(* server) are not modelled.                                               *)
(***************************************************************************)
EXTENDS Integers, Sequences, FiniteSets, TLC

VARIABLES
    \* --- personalityService.generatePersonalityResponses, one invocation
    genPrompt,      \* the prompt argument
    genKey,         \* state of GEMINI_API_KEY / GoogleGenAI construction
    genPc,          \* "init" | "calling" | "done"
    genOutcome,     \* per persona: <<>> while in flight, <<outcome>> once settled
    genResponses,   \* per persona: <<>> or <<PersonalityResponse>> of its async callback
    genResult,      \* the returned list (<<>> until done)
    upstreamCalls,  \* per persona: genAI.models.generateContent calls issued
    \* --- graphService
    sessions,       \* the sessions Map: session id -> Session
    nextId,         \* uuidv4 counter
    lastOp,         \* the last graphService call, its arguments and what it returned
    \* --- HTTP handlers (index.ts)
    reqs,           \* request slot -> request in flight / response sent
    \* --- rate limiter middleware (security.ts)
    hits,           \* limiter key -> requests counted in the key's current window
    lastReq,        \* the last request the limiter saw and what it did with it
    sent,           \* the last body handed to res.json and what res.send let out
    \* --- client (graphStore.ts, PromptInput.tsx)
    graphStore,     \* the state held by useGraphStore
    inflight,       \* request number -> the client request and how far it got
    storeOp,        \* the last store action called directly, with its arguments
    \* --- graph renderer (D3ForceGraph.tsx, useD3ForceSimulation.ts)
    graphNodes,     \* the nodes prop of the hook: the store's nodes as last rendered
    selectedNode,   \* the selectedNodeId prop: NoId for null
    viewport,       \* <<window.innerWidth, window.innerHeight>>
    simulation,     \* simulationRef.current with its nodes and their node groups
    isViewportLocked, \* isViewportLockedRef.current
    lockedNodeId,   \* lockedNodeIdRef.current: NoId for null
    timers,         \* pending setTimeout callbacks and the running centring transition
    renderOp        \* the last handler or callback of the renderer that ran

genVars == <<genPrompt, genKey, genPc, genOutcome, genResponses, genResult, upstreamCalls>>
svcVars == <<sessions, nextId, lastOp>>
limVars == <<hits, lastReq, sent>>
cliVars == <<graphStore, inflight, storeOp>>
d3Vars == <<graphNodes, selectedNode, viewport, simulation, isViewportLocked,
            lockedNodeId, timers, renderOp>>
vars == <<genPrompt, genKey, genPc, genOutcome, genResponses, genResult, upstreamCalls,
          sessions, nextId, lastOp, reqs, hits, lastReq, sent, graphStore, inflight, storeOp,
          graphNodes, selectedNode, viewport, simulation, isViewportLocked,
          lockedNodeId, timers, renderOp>>

----------------------------------------------------------------------------
(* Bounds                                                                   *)

\* upstream texts have a trimmed length of 0 or within Slack of the threshold
Slack == 1
\* most whitespace characters on either side of an upstream text
MaxPad == 1
\* longest prompt given to generatePersonalityResponses directly
MaxPromptLen == 1
\* uuidv4 calls after which no graphService call that needs an id is made
MaxIds == 24
\* HTTP requests that can be in flight at once
MaxReqs == 2
\* RATE_LIMIT_MAX, the requests one limiter key may make in a window
\* (60 unless configured)
RateLimitMax == 2

----------------------------------------------------------------------------
(* Texts                                                                    *)

Text(l, b, t) == [lead |-> l, body |-> b, trail |-> t]
EmptyText == Text(0, 0, 0)

\* String.prototype.length
StrLen(t) == t.lead + t.body + t.trail

\* String.prototype.trim
Trim(t) == Text(0, t.body, 0)

\* a JavaScript string is truthy iff it is not empty
Truthy(t) == StrLen(t) > 0

\* the text placed before/after/around texts by a template literal: the
\* result starts and ends with a non-whitespace character of the template
Embed(templateLen, parts) ==
    Text(0, templateLen + parts, 0)

----------------------------------------------------------------------------
(* personalityService.ts                                                    *)

PERSONAS == << [name |-> "optimist",  color |-> "green"],
               [name |-> "pessimist", color |-> "red"],
               [name |-> "realist",   color |-> "grey"] >>

PersonaNames == {PERSONAS[i].name : i \in 1..Len(PERSONAS)}

PersonaOf(name) == CHOOSE p \in {PERSONAS[i] : i \in 1..Len(PERSONAS)} : p.name = name

\* lengths of the three fallback templates without the prompt
OptimistTemplateLen == 318
PessimistTemplateLen == 294
RealistTemplateLen == 303

\* the two length thresholds of generatePersonalityResponses
MinCleanedLen == 10
ValidLenAbove == 10

FallbackTemplateLen(personality) ==
    CASE personality = "optimist"  -> OptimistTemplateLen
      [] personality = "pessimist" -> PessimistTemplateLen
      [] personality = "realist"   -> RealistTemplateLen

getPersonalityFallback(personality, prompt) ==
    [persona |-> personality,
     text    |-> Embed(FallbackTemplateLen(personality), StrLen(prompt)),
     color   |-> PersonaOf(personality).color]

\* a service that gives up instead of falling back
getPersonalityFallbackResponses_Empty(prompt) == <<>>

getPersonalityFallbackResponses(prompt) ==
    << getPersonalityFallback("optimist", prompt),
       getPersonalityFallback("pessimist", prompt),
       getPersonalityFallback("realist", prompt) >>

\* initializeGenAI: null when the key is missing or the client constructor throws
GenAIAvailable(key) == key = "configured"

(* An upstream outcome of one generateContent call:                         *)
(*   [kind |-> "throw"]      the call rejects                               *)
(*   [kind |-> "undefined"]  response.text is undefined                     *)
(*   [kind |-> "text"]       response.text is the string `text`            *)
Outcome(k, t) == [kind |-> k, text |-> t]

\* lines 165-200: the async callback of PERSONAS.map for one persona
PersonaCallback(persona, prompt, outcome) ==
    IF outcome.kind = "throw"
    THEN getPersonalityFallback(persona.name, prompt)
    ELSE IF outcome.kind = "undefined"
    THEN getPersonalityFallback(persona.name, prompt)
    ELSE LET cleanedText == Trim(outcome.text)
         IN IF ~Truthy(cleanedText) \/ StrLen(cleanedText) < MinCleanedLen
            THEN getPersonalityFallback(persona.name, prompt)
            ELSE [persona |-> persona.name, text |-> cleanedText, color |-> persona.color]

\* line 207: the validResponses filter
\* a filter that lets every response through
IsValidResponse_Any(response) == TRUE

IsValidResponse(response) ==
    Truthy(response.text) /\ StrLen(response.text) > ValidLenAbove

\* Array.prototype.find by persona: <<r>> for the first match, <<>> for none
FindPersona(list, name) ==
    LET found == SelectSeq(list, LAMBDA r : r.persona = name)
    IN IF Len(found) = 0 THEN <<>> ELSE <<found[1]>>

\* lines 218-227: fallbacks pushed for the personas missing from validResponses
\* a service that returns only the responses that passed the filter
FillMissing_None(validResponses, prompt) == validResponses

FillMissing(validResponses, prompt) ==
    IF Len(validResponses) < 3
    THEN LET missing == SelectSeq(PERSONAS,
                 LAMBDA p : \A i \in 1..Len(validResponses) : validResponses[i].persona # p.name)
             fill[i \in 0..Len(missing)] ==
                 IF i = 0 THEN validResponses
                 ELSE Append(fill[i-1], getPersonalityFallback(missing[i].name, prompt))
         IN fill[Len(missing)]
    ELSE validResponses

\* lines 230-234: optimist, pessimist, realist; absent ones dropped by filter(Boolean)
OrderResponses(validResponses) ==
    FindPersona(validResponses, "optimist")
      \o FindPersona(validResponses, "pessimist")
      \o FindPersona(validResponses, "realist")

\* lines 204-236: what follows Promise.all
JoinResponses(prompt, responses) ==
    LET validResponses == SelectSeq(responses, IsValidResponse)
    IN IF Len(validResponses) = 0
       THEN getPersonalityFallbackResponses(prompt)
       ELSE OrderResponses(FillMissing(validResponses, prompt))

\* the whole function, given what each upstream call does
generatePersonalityResponses(prompt, key, outcomes) ==
    IF ~GenAIAvailable(key)
    THEN getPersonalityFallbackResponses(prompt)
    ELSE JoinResponses(prompt,
           [i \in 1..Len(PERSONAS) |-> PersonaCallback(PERSONAS[i], prompt, outcomes[i])])

\* lengths of the two context templates of generatePersonalityBranch
FollowUpContextLen == 49
ExpandContextLen == 29

\* lines 326-332; followUp is <<>> (undefined) or <<text>>
BranchContextPrompt(parentText, followUp) ==
    IF Len(followUp) = 1 /\ Truthy(followUp[1])
    THEN Embed(FollowUpContextLen, StrLen(parentText) + StrLen(followUp[1]))
    ELSE Embed(ExpandContextLen, StrLen(parentText))

generatePersonalityBranch(parentText, followUp, key, outcomes) ==
    generatePersonalityResponses(BranchContextPrompt(parentText, followUp), key, outcomes)

----------------------------------------------------------------------------
(* graphService.ts                                                          *)

NoId == -1
NoPersona == "none"
NoColor == "none"

PromptNode(id, text, parentId) ==
    [id |-> id, text |-> text, parentId |-> parentId, type |-> "prompt",
     persona |-> NoPersona, color |-> NoColor]

ResponseNode(id, response, parentId) ==
    [id |-> id, text |-> response.text, parentId |-> parentId, type |-> "response",
     persona |-> response.persona, color |-> response.color]

EdgeOf(id, source, target) == [id |-> id, source |-> source, target |-> target]

\* Array.prototype.find(node => node.id === id): <<node>> or <<>>
FindNode(nodes, id) ==
    LET found == SelectSeq(nodes, LAMBDA n : n.id = id)
    IN IF Len(found) = 0 THEN <<>> ELSE <<found[1]>>

\* sessions.get
getSession(store, sessionId) ==
    IF sessionId \in DOMAIN store THEN <<store[sessionId]>> ELSE <<>>

\* the response nodes made children of the session instead of its root node
CreateResponseParent_Session(rootId, sessionId) == sessionId

\* line 82: parentId of the response nodes of createSession
CreateResponseParent(rootId, sessionId) == rootId

\* one Session object shared by all keys: the new session stored under
\* every id the Map holds
StoreSet_Shared(store, sessionId, session) ==
    [k \in DOMAIN store \cup {sessionId} |-> session]

\* sessions.set forgotten: the session is built and returned but not stored
StoreSet_Forgotten(store, sessionId, session) == store

\* line 103: sessions.set(sessionId, session)
StoreSet(store, sessionId, session) == (sessionId :> session) @@ store

(* createSession, lines 67-106.  uuidv4 is called for the session, the root, *)
(* each response node and then each edge, in that order.                    *)
createSession(store, nid, prompt, personalityResponses) ==
    LET n == Len(personalityResponses)
        sessionId == nid
        rootNode == PromptNode(nid + 1, prompt, NoId)
        responseNodes == [i \in 1..n |->
            ResponseNode(nid + 1 + i, personalityResponses[i],
                         CreateResponseParent(rootNode.id, sessionId))]
        edges == [i \in 1..n |->
            EdgeOf(nid + 1 + n + i, rootNode.id, responseNodes[i].id)]
        session == [id |-> sessionId, nodes |-> <<rootNode>> \o responseNodes, edges |-> edges]
    IN [store  |-> StoreSet(store, sessionId, session),
        nextId |-> nid + 2 + 2 * n,
        error  |-> "",
        session |-> session]

\* the edges to the personality nodes drawn from the branched node even
\* when a follow-up prompt node stands between them
BranchEdgeSource_Parent(anchorId, parentNodeId) == parentNodeId

\* line 178: the source of the edges to the personality nodes
BranchEdgeSource(anchorId, parentNodeId) == anchorId

\* assignment instead of push: the list is replaced by the new elements
Push_Replace(list, new) == new

\* lines 184-185: session.nodes.push(...newNodes) / session.edges.push(...newEdges)
Push(list, new) == list \o new

\* followUpPrompt !== undefined instead of a truthiness test
HasFollowUp_Defined(followUp) == Len(followUp) = 1

\* line 137: if (followUpPrompt); followUp is <<>> (undefined) or <<text>>
HasFollowUp(followUp) == Len(followUp) = 1 /\ Truthy(followUp[1])

\* the follow-up prompt node pushed to the session before the parent check
ParentNotFound_AfterPush(store, nid, sessionId, parentNodeId, followUp) ==
    [store |-> [store EXCEPT ![sessionId].nodes =
                   IF HasFollowUp(followUp)
                   THEN Append(@, PromptNode(nid, followUp[1], parentNodeId))
                   ELSE @],
     nextId |-> IF HasFollowUp(followUp) THEN nid + 1 ELSE nid,
     error |-> "Parent node not found", newNodes |-> <<>>, newEdges |-> <<>>]

\* lines 128-131: no node of the session has the id; nothing was touched yet
ParentNotFound(store, nid, sessionId, parentNodeId, followUp) ==
    [store |-> store, nextId |-> nid, error |-> "Parent node not found",
     newNodes |-> <<>>, newEdges |-> <<>>]

(* addBranch, lines 122-191.  uuidv4 is called for the follow-up prompt     *)
(* node (if any), each personality node, the prompt edge (if any) and then  *)
(* each remaining edge.                                                     *)
addBranch(store, nid, sessionId, parentNodeId, personalityResponses, followUp) ==
    IF sessionId \notin DOMAIN store
    THEN [store |-> store, nextId |-> nid, error |-> "Session not found",
          newNodes |-> <<>>, newEdges |-> <<>>]
    ELSE
    LET session == store[sessionId]
        parentNode == FindNode(session.nodes, parentNodeId)
    IN IF Len(parentNode) = 0
       THEN ParentNotFound(store, nid, sessionId, parentNodeId, followUp)
       ELSE
       LET n == Len(personalityResponses)
           f == IF HasFollowUp(followUp) THEN 1 ELSE 0
           promptNode == IF f = 1
                         THEN <<PromptNode(nid, followUp[1], parentNodeId)>>
                         ELSE <<>>
           anchorId == IF f = 1 THEN promptNode[1].id ELSE parentNode[1].id
           personalityNodes == [i \in 1..n |->
               ResponseNode(nid + f + i - 1, personalityResponses[i], anchorId)]
           newNodes == promptNode \o personalityNodes
           promptEdge == IF f = 1
                         THEN <<EdgeOf(nid + f + n, parentNodeId, promptNode[1].id)>>
                         ELSE <<>>
           personalityEdges == [i \in 1..n |->
               EdgeOf(nid + 2 * f + n + i - 1,
                      BranchEdgeSource(anchorId, parentNodeId), personalityNodes[i].id)]
           newEdges == promptEdge \o personalityEdges
           updated == [session EXCEPT !.nodes = Push(session.nodes, newNodes),
                                      !.edges = Push(session.edges, newEdges)]
       IN [store  |-> [store EXCEPT ![sessionId] = updated],
           nextId |-> nid + 2 * f + 2 * n,
           error  |-> "",
           newNodes |-> newNodes,
           newEdges |-> newEdges]

\* personas[index] without a default: no persona past the last of PERSONAS
SimplePersona_NoDefault(index) ==
    IF index < Len(PERSONAS) THEN PERSONAS[index + 1]
    ELSE [name |-> NoPersona, color |-> NoColor]

\* lines 211-224: the persona given to the index-th (0-based) simple response
SimplePersona(index) ==
    IF index < Len(PERSONAS) THEN PERSONAS[index + 1]
    ELSE [name |-> "realist", color |-> "grey"]

\* addSimpleBranch, lines 209-227
addSimpleBranch(store, nid, sessionId, parentNodeId, responses) ==
    addBranch(store, nid, sessionId, parentNodeId,
              [i \in 1..Len(responses) |->
                  [persona |-> SimplePersona(i - 1).name,
                   text    |-> responses[i],
                   color   |-> SimplePersona(i - 1).color]],
              <<>>)

\* Array.from(sessions.values()).reduce((sum, s) => sum + s[field].length, 0)
RECURSIVE SumLengths(_, _, _)
SumLengths(store, ids, field) ==
    IF ids = {} THEN 0
    ELSE LET x == CHOOSE y \in ids : TRUE
             len == IF field = "nodes" THEN Len(store[x].nodes) ELSE Len(store[x].edges)
         IN len + SumLengths(store, ids \ {x}, field)

\* Math.round of a non-negative quotient a / b (halves round up)
RoundDiv(a, b) == (2 * a + b) \div (2 * b)

\* getSessionStats, lines 271-282
getSessionStats(store) ==
    LET totalSessions == Cardinality(DOMAIN store)
        totalNodes == SumLengths(store, DOMAIN store, "nodes")
        totalEdges == SumLengths(store, DOMAIN store, "edges")
    IN [totalSessions |-> totalSessions,
        totalNodes |-> totalNodes,
        totalEdges |-> totalEdges,
        averageNodesPerSession |->
            IF totalSessions > 0 THEN RoundDiv(totalNodes, totalSessions) ELSE 0]

----------------------------------------------------------------------------
(* States shared by the specifications                                      *)

EmptyStore == [x \in {} |-> x]
NoOp == [op |-> "none"]
PersonaIdx == 1..Len(PERSONAS)
NoCalls == [i \in PersonaIdx |-> 0]
NoneYet == [i \in PersonaIdx |-> <<>>]

GenIdle ==
    /\ genPrompt = EmptyText
    /\ genKey = "configured"
    /\ genPc = "idle"
    /\ genOutcome = NoneYet
    /\ genResponses = NoneYet
    /\ genResult = <<>>
    /\ upstreamCalls = NoCalls

\* the limiter's store after rateLimit(...) has built it: no key counted
NoHits == <<>>
NoReq == [method |-> "none", path |-> <<>>, status |-> 0]

LimIdle ==
    /\ hits = NoHits
    /\ lastReq = NoReq
    /\ sent = [kind |-> "none"]

(* graphStore.ts                                                            *)

\* error: null
NoError == "null"

\* lines 169-175: the store's initial state
InitialState ==
    [nodes |-> <<>>, edges |-> <<>>, sessionId |-> NoId, isLoading |-> FALSE,
     error |-> NoError, overlayNode |-> <<>>, isOverlayVisible |-> FALSE]

\* zustand's set(partial): the fields of partial replace those of the state
set(state, partial) ==
    [f \in DOMAIN state |-> IF f \in DOMAIN partial THEN partial[f] ELSE state[f]]

\* lines 189-194; an absent session id is stored as null
setGraph(state, nodes, edges, sessionId) ==
    set(state, [nodes |-> nodes, edges |-> edges, sessionId |-> sessionId,
                error |-> NoError])

\* the given nodes and edges appended except those whose id the lists hold
addNodes_Dedup(state, newNodes, newEdges) ==
    set(state,
        [nodes |-> state.nodes \o SelectSeq(newNodes,
                       LAMBDA n : \A i \in 1..Len(state.nodes) : state.nodes[i].id # n.id),
         edges |-> state.edges \o SelectSeq(newEdges,
                       LAMBDA e : \A i \in 1..Len(state.edges) : state.edges[i].id # e.id),
         error |-> NoError])

\* lines 204-208
addNodes(state, newNodes, newEdges) ==
    set(state, [nodes |-> state.nodes \o newNodes, edges |-> state.edges \o newEdges,
                error |-> NoError])

\* line 216
setLoading(state, isLoading) == set(state, [isLoading |-> isLoading])

\* line 224
setError(state, error) == set(state, [error |-> error, isLoading |-> FALSE])

\* lines 230-237
clearGraph(state) ==
    set(state, [nodes |-> <<>>, edges |-> <<>>, sessionId |-> NoId, error |-> NoError,
                overlayNode |-> <<>>, isOverlayVisible |-> FALSE])

\* lines 244-247
showOverlay(state, node) ==
    set(state, [overlayNode |-> <<node>>, isOverlayVisible |-> TRUE])

\* lines 252-255
hideOverlay(state) ==
    set(state, [overlayNode |-> <<>>, isOverlayVisible |-> FALSE])

\* window sizes; innerWidth / 2 and innerHeight / 2 are whole for each
Viewports == { <<4, 4>>, <<6, 4>> }
\* the window as the page loads
InitialViewport == <<4, 4>>

\* useD3ForceSimulation.ts lines 77-86: the refs as the hook is first
\* called; D3ForceGraph.tsx lines 37-44: the props of an empty store
D3Idle ==
    /\ graphNodes = <<>>
    /\ selectedNode = NoId
    /\ viewport = InitialViewport
    /\ simulation = [built |-> FALSE, build |-> 0, size |-> <<0, 0>>,
                     nodes |-> <<>>, opacity |-> <<>>]
    /\ isViewportLocked = FALSE
    /\ lockedNodeId = NoId
    /\ timers = {}
    /\ renderOp = [op |-> "none"]

\* the client as the page loads: nothing sent, no store action called
CliIdle ==
    /\ graphStore = InitialState
    /\ inflight = <<>>
    /\ storeOp = NoOp
    /\ D3Idle

SvcEmpty ==
    /\ sessions = EmptyStore
    /\ nextId = 0
    /\ lastOp = NoOp

----------------------------------------------------------------------------
(* One invocation of generatePersonalityResponses, step by step             *)

\* trimmed lengths an upstream text may have: empty, or around the thresholds
BodyLens == {0} \cup ((MinCleanedLen - Slack)..(ValidLenAbove + Slack))

UpstreamTexts == {Text(l, b, t) : l \in 0..MaxPad, b \in BodyLens, t \in 0..MaxPad}

Outcomes ==
    {Outcome("throw", EmptyText), Outcome("undefined", EmptyText)}
      \cup {Outcome("text", t) : t \in UpstreamTexts}

GenPrompts == {Text(0, b, 0) : b \in 0..MaxPromptLen}

KeyStates == {"configured", "missing", "initfails"}

\* lines 164-177: each callback of PERSONAS.map calls generateContent once
IssueCalls(calls) == [i \in PersonaIdx |-> calls[i] + 1]

\* a callback that calls generateContent again when its call threw or the
\* text was too short
CallsOnSettle_Retry(calls, i, outcome) ==
    IF outcome.kind = "throw" \/ StrLen(Trim(outcome.text)) < MinCleanedLen
    THEN [calls EXCEPT ![i] = @ + 1]
    ELSE calls

\* lines 179-200: after its await the callback returns the text or the
\* fallback and calls nothing
CallsOnSettle(calls, i, outcome) == calls

GenInit ==
    /\ genPrompt \in GenPrompts
    /\ genKey \in KeyStates
    /\ genPc = "init"
    /\ genOutcome = NoneYet
    /\ genResponses = NoneYet
    /\ genResult = <<>>
    /\ upstreamCalls = NoCalls
    /\ SvcEmpty
    /\ reqs = [r \in 1..MaxReqs |-> [pc |-> "idle"]]
    /\ LimIdle
    /\ CliIdle

\* lines 153-159: no client, the fallbacks are returned at once
GenStartNoClient ==
    /\ genPc = "init"
    /\ ~GenAIAvailable(genKey)
    /\ genResult' = getPersonalityFallbackResponses(genPrompt)
    /\ genPc' = "done"
    /\ UNCHANGED <<genPrompt, genKey, genOutcome, genResponses, upstreamCalls>>
    /\ UNCHANGED <<sessions, nextId, lastOp, reqs, limVars, cliVars, d3Vars>>

\* lines 164-177: PERSONAS.map runs each callback up to its await, one
\* generateContent call per persona
GenStartCalls ==
    /\ genPc = "init"
    /\ GenAIAvailable(genKey)
    /\ genPc' = "calling"
    /\ upstreamCalls' = IssueCalls(upstreamCalls)
    /\ UNCHANGED <<genPrompt, genKey, genOutcome, genResponses, genResult>>
    /\ UNCHANGED <<sessions, nextId, lastOp, reqs, limVars, cliVars, d3Vars>>

\* lines 179-200: persona i's upstream call settles and its callback returns
PersonaSettle(i) ==
    /\ genPc = "calling"
    /\ genOutcome[i] = <<>>
    /\ \E o \in Outcomes :
        /\ genOutcome' = [genOutcome EXCEPT ![i] = <<o>>]
        /\ genResponses' = [genResponses EXCEPT
                               ![i] = <<PersonaCallback(PERSONAS[i], genPrompt, o)>>]
        /\ upstreamCalls' = CallsOnSettle(upstreamCalls, i, o)
    /\ UNCHANGED <<genPrompt, genKey, genPc, genResult>>
    /\ UNCHANGED <<sessions, nextId, lastOp, reqs, limVars, cliVars, d3Vars>>

\* lines 204-236: Promise.all resolves once every callback has returned
GenJoin ==
    /\ genPc = "calling"
    /\ \A i \in PersonaIdx : genResponses[i] # <<>>
    /\ genResult' = JoinResponses(genPrompt, [i \in PersonaIdx |-> genResponses[i][1]])
    /\ genPc' = "done"
    /\ UNCHANGED <<genPrompt, genKey, genOutcome, genResponses, upstreamCalls>>
    /\ UNCHANGED <<sessions, nextId, lastOp, reqs, limVars, cliVars, d3Vars>>

GenNext ==
    \/ GenStartNoClient
    \/ GenStartCalls
    \/ \E i \in PersonaIdx : PersonaSettle(i)
    \/ GenJoin

SpecGen == GenInit /\ [][GenNext]_vars

\* The event loop runs every continuation that is ready: the synchronous
\* start of the function and the continuation of Promise.all.  Nothing in
\* the code makes an upstream call settle (no timeout is set on
\* generateContent and none is raced against it), so PersonaSettle is
\* given no fairness.
SpecGenLive ==
    /\ GenInit
    /\ [][GenNext]_vars
    /\ WF_vars(GenStartNoClient)
    /\ WF_vars(GenStartCalls)
    /\ WF_vars(GenJoin)

----------------------------------------------------------------------------
(* graphService called directly, with any arguments                         *)

\* an id that no uuidv4 call has returned
UnknownId == NoId - 1

\* the response handed over for the i-th position: the three personas in
\* order, then realist again
InputResponse(i) ==
    [persona |-> SimplePersona(i - 1).name,
     text    |-> Text(0, ValidLenAbove + i, 0),
     color   |-> SimplePersona(i - 1).color]

\* lengths of the response lists handed to createSession and addBranch:
\* one per persona, as the HTTP handlers and the tests pass them
ResponseCounts == {Len(PERSONAS)}
InputResponses == {[i \in 1..n |-> InputResponse(i)] : n \in ResponseCounts}

\* lengths of the string lists handed to addSimpleBranch: one per persona,
\* and one more than there are personas
SimpleCounts == {Len(PERSONAS), Len(PERSONAS) + 1}
SimpleResponses == {[i \in 1..n |-> Text(0, i, 0)] : n \in SimpleCounts}

SvcPrompts == {Text(0, 1, 0)}

\* followUpPrompt: undefined, the empty string, or a text
FollowUps == {<<>>, <<EmptyText>>, <<Text(0, 2, 0)>>}

NodeIdsOf(store) ==
    UNION {{store[s].nodes[i].id : i \in 1..Len(store[s].nodes)} : s \in DOMAIN store}

SessionArgs == DOMAIN sessions \cup {UnknownId}
NodeArgs == NodeIdsOf(sessions) \cup {UnknownId}

Init ==
    /\ SvcEmpty
    /\ GenIdle
    /\ reqs = [r \in 1..MaxReqs |-> [pc |-> "idle"]]
    /\ LimIdle
    /\ CliIdle

\* what lastOp keeps of an addBranch/addSimpleBranch call: the session and
\* node it named, the error thrown and, when it returned, the remaining
\* arguments and the returned elements
BranchLog(op, sessionId, parentNodeId, responses, followUp, r) ==
    IF r.error # ""
    THEN [op |-> op, sessionId |-> sessionId, parentNodeId |-> parentNodeId,
          error |-> r.error]
    ELSE [op |-> op, sessionId |-> sessionId, parentNodeId |-> parentNodeId,
          error |-> r.error, responses |-> responses, followUp |-> followUp,
          newNodes |-> r.newNodes, newEdges |-> r.newEdges]

CreateSessionCall ==
    \E prompt \in SvcPrompts, responses \in InputResponses :
        LET r == createSession(sessions, nextId, prompt, responses)
        IN /\ r.nextId <= MaxIds
           /\ sessions' = r.store
           /\ nextId' = r.nextId
           /\ lastOp' = [op |-> "createSession", prompt |-> prompt,
                         responses |-> responses, session |-> r.session]
           /\ UNCHANGED genVars
           /\ UNCHANGED <<reqs, limVars, cliVars, d3Vars>>

AddBranchCall ==
    \E sessionId \in SessionArgs, parentNodeId \in NodeArgs,
       responses \in InputResponses, followUp \in FollowUps :
        LET r == addBranch(sessions, nextId, sessionId, parentNodeId, responses, followUp)
        IN /\ r.nextId <= MaxIds
           /\ sessions' = r.store
           /\ nextId' = r.nextId
           /\ lastOp' = BranchLog("addBranch", sessionId, parentNodeId,
                                  responses, followUp, r)
           /\ UNCHANGED genVars
           /\ UNCHANGED <<reqs, limVars, cliVars, d3Vars>>

AddSimpleBranchCall ==
    \E sessionId \in SessionArgs, parentNodeId \in NodeArgs, responses \in SimpleResponses :
        LET r == addSimpleBranch(sessions, nextId, sessionId, parentNodeId, responses)
        IN /\ r.nextId <= MaxIds
           /\ sessions' = r.store
           /\ nextId' = r.nextId
           /\ lastOp' = BranchLog("addSimpleBranch", sessionId, parentNodeId,
                                  responses, <<>>, r)
           /\ UNCHANGED genVars
           /\ UNCHANGED <<reqs, limVars, cliVars, d3Vars>>

GetSessionCall ==
    \E sessionId \in SessionArgs :
        /\ lastOp' = [op |-> "getSession", sessionId |-> sessionId,
                      result |-> getSession(sessions, sessionId)]
        /\ UNCHANGED <<sessions, nextId>>
        /\ UNCHANGED genVars
        /\ UNCHANGED <<reqs, limVars, cliVars, d3Vars>>

GetSessionStatsCall ==
    /\ lastOp' = [op |-> "getSessionStats", stats |-> getSessionStats(sessions)]
    /\ UNCHANGED <<sessions, nextId>>
    /\ UNCHANGED genVars
    /\ UNCHANGED <<reqs, limVars, cliVars, d3Vars>>

Next ==
    \/ CreateSessionCall
    \/ AddBranchCall
    \/ AddSimpleBranchCall
    \/ GetSessionCall
    \/ GetSessionStatsCall

Spec == Init /\ [][Next]_vars

----------------------------------------------------------------------------
(* security.ts: request validation                                          *)

MaxPromptChars == 1000
MaxFollowUpChars == 500
\* characters that validator's escape() adds for one '&' ("&amp;")
AmpEscapeGain == 4

(* A prompt as it arrives in a request body:                                *)
(*   [kind |-> "absent"]  the field is undefined                            *)
(*   [kind |-> "other"]   the field is not a string                         *)
(*   [kind |-> "string", text, amps]  a string holding `amps` '&' characters *)
RawPrompt(k, t, a) == [kind |-> k, text |-> t, amps |-> a]

\* .trim().isLength({min: 1, max}) of the express-validator chain
LengthOk(raw, max) ==
    /\ raw.kind = "string"
    /\ StrLen(Trim(raw.text)) >= 1
    /\ StrLen(Trim(raw.text)) <= max

\* .trim() ... .escape(): what the handler reads from req.body.prompt
Sanitize(raw) == Text(0, raw.text.body + AmpEscapeGain * raw.amps, 0)

\* validateBrainstormRequest, lines 186-204
BrainstormValid(raw) == LengthOk(raw, MaxPromptChars)

\* an id string that is not a UUID
MalformedId == UnknownId - 1

\* validateBranchRequest, lines 219-246: the prompt is optional
BranchValid(sessionId, nodeId, raw) ==
    /\ sessionId # MalformedId
    /\ nodeId # MalformedId
    /\ raw.kind = "absent" \/ LengthOk(raw, MaxFollowUpChars)

----------------------------------------------------------------------------
(* index.ts: POST /api/brainstorm and POST /api/branch                      *)

Slots == 1..MaxReqs
IdleReq == [pc |-> "idle"]

\* request bodies tried against POST /api/brainstorm
BrainstormBodies ==
    { RawPrompt("absent", EmptyText, 0),
      RawPrompt("string", Text(1, 0, 1), 0),
      RawPrompt("string", Text(1, MaxPromptChars, 0), 1),
      RawPrompt("string", Text(0, MaxPromptChars + 1, 0), 0) }

\* follow-up prompts tried against POST /api/branch
BranchBodies ==
    { RawPrompt("absent", EmptyText, 0),
      RawPrompt("string", EmptyText, 0),
      RawPrompt("string", Text(1, 2, 0), 0),
      RawPrompt("string", Text(0, MaxFollowUpChars + 1, 0), 0) }

\* what one upstream call of a request does: it throws, answers too short a
\* text, or answers a long enough text
ThrowOutcome == Outcome("throw", EmptyText)
ShortOutcome == Outcome("text", Text(0, MinCleanedLen - 1, 1))
LongOutcome == Outcome("text", Text(1, ValidLenAbove + 1, 0))

\* the three upstream calls of one request: all fail, or one of each kind
ApiOutcomeVectors ==
    { <<ThrowOutcome, ThrowOutcome, ThrowOutcome>>,
      <<ThrowOutcome, ShortOutcome, LongOutcome>> }

ApiKeyStates == {"configured", "missing"}

ApiInit ==
    /\ SvcEmpty
    /\ genPrompt = EmptyText
    /\ genKey \in ApiKeyStates
    /\ genPc = "idle"
    /\ genOutcome = NoneYet
    /\ genResponses = NoneYet
    /\ genResult = <<>>
    /\ upstreamCalls = NoCalls
    /\ reqs = [r \in Slots |-> IdleReq]
    /\ LimIdle
    /\ CliIdle

ApiFrame ==
    UNCHANGED <<genPrompt, genKey, genPc, genOutcome, genResponses, genResult,
                lastOp, limVars, cliVars, d3Vars>>

\* personalityService.ts lines 154-170: generatePersonalityResponses issues
\* its generateContent calls, one per persona, before its first await, and
\* none without a client
UpstreamCallsIssued(calls, key) ==
    IF GenAIAvailable(key) THEN IssueCalls(calls) ELSE calls

\* ids that one request draws at most: a session and its root, or a
\* follow-up node and its edge, then a node and an edge per persona
IdsPerRequest == 2 * Len(PERSONAS) + 2

\* a request, valid or not, is taken on only while the id budget covers it
\* and every request that is still generating
RoomForRequest ==
    nextId + IdsPerRequest * (1 + Cardinality({q \in Slots : reqs[q].pc = "generating"}))
        <= MaxIds

\* a connection takes a request on the first slot that is idle
FreeSlot(r) ==
    /\ reqs[r].pc = "idle"
    /\ \A q \in 1..(r - 1) : reqs[q].pc # "idle"

\* validateBrainstormRequest answers 400; the handler does not run
BrainstormRejected(r) ==
    /\ FreeSlot(r)
    /\ RoomForRequest
    /\ {raw \in BrainstormBodies : ~BrainstormValid(raw)} # {}
    /\ reqs' = [reqs EXCEPT ![r] = [pc |-> "done", kind |-> "brainstorm", status |-> 400]]
    /\ UNCHANGED <<sessions, nextId>>
    /\ UNCHANGED upstreamCalls
    /\ ApiFrame

\* lines 141-148: the handler runs up to its await
BrainstormAccepted(r) ==
    /\ FreeSlot(r)
    /\ RoomForRequest
    /\ \E raw \in BrainstormBodies :
        /\ BrainstormValid(raw)
        /\ reqs' = [reqs EXCEPT ![r] =
              [pc |-> "generating", kind |-> "brainstorm", prompt |-> Sanitize(raw)]]
    /\ UNCHANGED <<sessions, nextId>>
    /\ upstreamCalls' = UpstreamCallsIssued(upstreamCalls, genKey)
    /\ ApiFrame

\* lines 148-168: the responses arrive, the session is created and sent
BrainstormFinish(r) ==
    /\ reqs[r].pc = "generating"
    /\ reqs[r].kind = "brainstorm"
    /\ \E outcomes \in ApiOutcomeVectors :
        LET personalityResponses ==
                generatePersonalityResponses(reqs[r].prompt, genKey, outcomes)
            c == createSession(sessions, nextId, reqs[r].prompt, personalityResponses)
        IN IF Len(personalityResponses) = 0
           THEN /\ reqs' = [reqs EXCEPT ![r] =
                       [pc |-> "done", kind |-> "brainstorm", status |-> 500]]
                /\ UNCHANGED <<sessions, nextId>>
           ELSE /\ c.nextId <= MaxIds
                /\ sessions' = c.store
                /\ nextId' = c.nextId
                /\ reqs' = [reqs EXCEPT ![r] =
                       [pc |-> "done", kind |-> "brainstorm", status |-> 200,
                        sessionId |-> c.session.id,
                        nodes |-> c.session.nodes, edges |-> c.session.edges]]
    /\ UNCHANGED upstreamCalls
    /\ ApiFrame

\* lines 266-274: both lookups of the branch handler succeed
NodeFound(store, sessionId, nodeId) ==
    IF getSession(store, sessionId) = <<>> THEN FALSE
    ELSE FindNode(getSession(store, sessionId)[1].nodes, nodeId) # <<>>

\* the requests that validateBranchRequest turns down
RejectedBranchRequests ==
    {q \in (SessionArgs \cup {MalformedId}) \X (NodeArgs \cup {MalformedId}) \X BranchBodies :
        ~BranchValid(q[1], q[2], q[3])}

\* validateBranchRequest answers 400; the handler does not run
BranchRejected(r) ==
    /\ FreeSlot(r)
    /\ RoomForRequest
    /\ RejectedBranchRequests # {}
    /\ reqs' = [reqs EXCEPT ![r] = [pc |-> "done", kind |-> "branch", status |-> 400]]
    /\ UNCHANGED <<sessions, nextId>>
    /\ UNCHANGED upstreamCalls
    /\ ApiFrame

\* a handler that starts generating before it looks the node up
CallsBeforeLookup_Eager(calls, key) == UpstreamCallsIssued(calls, key)

\* lines 262-274: upstream calls the handler has issued when it answers
\* 404; generatePersonalityBranch is only called on line 282
CallsBeforeLookup(calls, key) == calls

\* the session created last, if any
NewestSession == {s \in DOMAIN sessions : \A t \in DOMAIN sessions : t <= s}

\* node ids tried in requests that may miss: an id of no node, and the
\* root node of the newest session
ProbeNodes == {UnknownId} \cup {sessions[s].nodes[1].id : s \in NewestSession}

\* node ids branched from: the root node and the newest node of a session
BranchTargets ==
    UNION {{sessions[s].nodes[1].id, sessions[s].nodes[Len(sessions[s].nodes)].id} :
              s \in DOMAIN sessions}

\* session ids tried in GET /api/session/:id
ProbeSessions == {MalformedId, UnknownId} \cup NewestSession

\* lines 266-274: the session or the node is not there
BranchNotFound(r) ==
    /\ FreeSlot(r)
    /\ RoomForRequest
    /\ \E sessionId \in SessionArgs, nodeId \in ProbeNodes :
        /\ {raw \in BranchBodies : BranchValid(sessionId, nodeId, raw)} # {}
        /\ ~NodeFound(sessions, sessionId, nodeId)
        /\ reqs' = [reqs EXCEPT ![r] =
              [pc |-> "done", kind |-> "branch", status |-> 404,
               sessionId |-> sessionId, nodeId |-> nodeId,
               error |-> IF getSession(sessions, sessionId) = <<>>
                         THEN "Session not found" ELSE "Node not found"]]
    /\ UNCHANGED <<sessions, nextId>>
    /\ upstreamCalls' = CallsBeforeLookup(upstreamCalls, genKey)
    /\ ApiFrame

\* lines 262-282: the node is found and the handler runs up to its await.
\* seenNodes/seenEdges: the lengths of the session's lists at that moment
BranchAccepted(r) ==
    /\ FreeSlot(r)
    /\ RoomForRequest
    /\ \E sessionId \in SessionArgs, nodeId \in BranchTargets, raw \in BranchBodies :
        /\ BranchValid(sessionId, nodeId, raw)
        /\ NodeFound(sessions, sessionId, nodeId)
        /\ LET session == getSession(sessions, sessionId)[1]
               parentNode == FindNode(session.nodes, nodeId)
           IN reqs' = [reqs EXCEPT ![r] =
                    [pc |-> "generating", kind |-> "branch",
                     sessionId |-> sessionId, nodeId |-> nodeId,
                     followUp |-> IF raw.kind = "absent" THEN <<>> ELSE <<Sanitize(raw)>>,
                     parentText |-> parentNode[1].text,
                  seenNodes |-> Len(session.nodes),
                  seenEdges |-> Len(session.edges)]]
    /\ UNCHANGED <<sessions, nextId>>
    /\ upstreamCalls' = UpstreamCallsIssued(upstreamCalls, genKey)
    /\ ApiFrame

\* the session cut back to what the handler saw before its await
StaleStore(store, sessionId, seenNodes, seenEdges) ==
    [store EXCEPT ![sessionId].nodes = SubSeq(@, 1, seenNodes),
                  ![sessionId].edges = SubSeq(@, 1, seenEdges)]

\* line 289: addBranch looks the session up again, in the store as it is now
LiveStore(store, sessionId, seenNodes, seenEdges) == store

\* lines 282-301: the responses arrive, the branch is added and sent
BranchFinish(r) ==
    /\ reqs[r].pc = "generating"
    /\ reqs[r].kind = "branch"
    /\ \E outcomes \in ApiOutcomeVectors :
        LET q == reqs[r]
            personalityResponses ==
                generatePersonalityBranch(q.parentText, q.followUp, genKey, outcomes)
            b == addBranch(LiveStore(sessions, q.sessionId, q.seenNodes, q.seenEdges),
                           nextId, q.sessionId, q.nodeId, personalityResponses, q.followUp)
        IN IF Len(personalityResponses) = 0 \/ b.error # ""
           THEN /\ reqs' = [reqs EXCEPT ![r] =
                       [pc |-> "done", kind |-> "branch", status |-> 500]]
                /\ UNCHANGED <<sessions, nextId>>
           ELSE /\ b.nextId <= MaxIds
                /\ sessions' = b.store
                /\ nextId' = b.nextId
                /\ reqs' = [reqs EXCEPT ![r] =
                       [pc |-> "done", kind |-> "branch", status |-> 200,
                        sessionId |-> q.sessionId, nodeId |-> q.nodeId,
                        followUp |-> q.followUp, seenNodes |-> q.seenNodes,
                        newNodes |-> b.newNodes, newEdges |-> b.newEdges]]
    /\ UNCHANGED upstreamCalls
    /\ ApiFrame

\* lines 198-223: GET /api/session/:id, answered without an await
SessionGet(r) ==
    /\ FreeSlot(r)
    /\ RoomForRequest
    /\ \E id \in ProbeSessions :
        reqs' = [reqs EXCEPT ![r] =
            IF id = MalformedId
            THEN [pc |-> "done", kind |-> "session", status |-> 400,
                  id |-> id, error |-> "Invalid session ID format"]
            ELSE IF getSession(sessions, id) = <<>>
            THEN [pc |-> "done", kind |-> "session", status |-> 404,
                  id |-> id, error |-> "Session not found"]
            ELSE [pc |-> "done", kind |-> "session", status |-> 200,
                  id |-> id, sessionId |-> getSession(sessions, id)[1].id,
                  nodes |-> getSession(sessions, id)[1].nodes,
                  edges |-> getSession(sessions, id)[1].edges]]
    /\ UNCHANGED <<sessions, nextId>>
    /\ UNCHANGED upstreamCalls
    /\ ApiFrame

\* the response has been sent; the connection takes the next request
Recycle(r) ==
    /\ reqs[r].pc = "done"
    /\ reqs' = [reqs EXCEPT ![r] = IdleReq]
    /\ UNCHANGED <<sessions, nextId>>
    /\ UNCHANGED upstreamCalls
    /\ ApiFrame

ApiNext ==
    \E r \in Slots :
        \/ BrainstormRejected(r)
        \/ BrainstormAccepted(r)
        \/ BrainstormFinish(r)
        \/ BranchRejected(r)
        \/ BranchNotFound(r)
        \/ BranchAccepted(r)
        \/ BranchFinish(r)
        \/ SessionGet(r)
        \/ Recycle(r)

SpecApi == ApiInit /\ [][ApiNext]_vars

----------------------------------------------------------------------------
(* security.ts: createRateLimiter, mounted by app.use('/api', rateLimiter)  *)

(* A path is the sequence of its segments: /api/session/s1 is               *)
(* <<"api", "session", "s1">>.                                              *)
StartsWith(path, prefix) ==
    /\ Len(prefix) <= Len(path)
    /\ SubSeq(path, 1, Len(prefix)) = prefix

\* the path app.use mounts the limiter on
MountPath == <<"api">>

\* req.path as a middleware mounted on `mount` reads it: Express strips the
\* mount path from req.url for the time the middleware runs
MountedPath(originalPath, mount) ==
    IF StartsWith(originalPath, mount)
    THEN SubSeq(originalPath, Len(mount) + 1, Len(originalPath))
    ELSE originalPath

\* lines 65 and 72: the window and the retryAfter of the 429 message
WindowMs == 60000
RetryAfter == (WindowMs + 999) \div 1000

\* lines 77-81: `${ip}:${endpoint}` with endpoint = req.path
keyGenerator_IpOnly(ip, path) == <<ip>>

keyGenerator(ip, path) == <<ip, path>>

\* lines 83-86: req.method === 'GET' && req.path.startsWith('/api/session')
skip(method, path) ==
    /\ method = "GET"
    /\ StartsWith(path, <<"api", "session">>)

\* the limiter's store: requests counted for a key in its current window
Hits(store, key) == IF key \in DOMAIN store THEN store[key] ELSE 0

\* the middleware returned by rateLimit(...): a skipped request goes on to
\* the route uncounted; any other request is counted under its key and is
\* answered 429 with the message once the count exceeds max.  status 0:
\* the limiter sent nothing and called next()
rateLimiter(store, req) ==
    LET path == MountedPath(req.path, MountPath)
        key == keyGenerator(req.ip, path)
        totalHits == Hits(store, key) + 1
    IN IF skip(req.method, path)
       THEN [hits |-> store, status |-> 0, retryAfter |-> 0]
       ELSE IF totalHits > RateLimitMax
       THEN [hits |-> (key :> totalHits) @@ store, status |-> 429,
             retryAfter |-> RetryAfter]
       ELSE [hits |-> (key :> totalHits) @@ store, status |-> 0,
             retryAfter |-> 0]

Addresses == {"10.0.0.1", "10.0.0.2"}

Request(ip, method, path) == [ip |-> ip, method |-> method, path |-> path]

\* the requests sent to /api
LimitedRequests ==
    {Request(ip, "POST", <<"api", "brainstorm">>) : ip \in Addresses}
    \cup {Request(ip, "POST", <<"api", "branch">>) : ip \in Addresses}
    \cup {Request(ip, "GET", <<"api", "session", "s1">>) : ip \in Addresses}

LimInit ==
    /\ SvcEmpty
    /\ GenIdle
    /\ reqs = [r \in 1..MaxReqs |-> [pc |-> "idle"]]
    /\ LimIdle
    /\ CliIdle

\* a request reaches the limiter; requests far beyond the limit are not
\* tried any more
RateLimiterRequest(req) ==
    /\ Hits(hits, keyGenerator(req.ip, MountedPath(req.path, MountPath))) <= RateLimitMax + 1
    /\ LET r == rateLimiter(hits, req)
       IN /\ hits' = r.hits
          /\ lastReq' = [method |-> req.method, ip |-> req.ip, path |-> req.path,
                         status |-> r.status, retryAfter |-> r.retryAfter]
    /\ UNCHANGED <<sent, genVars, svcVars, reqs, cliVars, d3Vars>>

\* the window of a key ends: the store forgets the key
WindowExpires(key) ==
    /\ key \in DOMAIN hits
    /\ hits' = [k \in DOMAIN hits \ {key} |-> hits[k]]
    /\ UNCHANGED <<lastReq, sent, genVars, svcVars, reqs, cliVars, d3Vars>>

LimNext ==
    \/ \E req \in LimitedRequests : RateLimiterRequest(req)
    \/ \E key \in DOMAIN hits : WindowExpires(key)

SpecLimit == LimInit /\ [][LimNext]_vars

----------------------------------------------------------------------------
(* security.ts: limitResponseSize, the wrapper put around res.send, and the *)
(* graph responses that the handlers hand to res.json                       *)

\* line 268: maxSize = 64 * 1024
MaxResponseBytes == 65536
\* line 283: node.text.length > 200, node.text.substring(0, 200)
TruncateAt == 200
\* line 283: the length of '...'
EllipsisLen == 3

\* most nodes in a response body
MaxSendNodes == 3

\* line 283: text.substring(0, 200) + '...', by shape: the leading
\* whitespace that fits stays leading, the dots end the text
Truncated(text) ==
    LET lead == IF text.lead < TruncateAt THEN text.lead ELSE TruncateAt
    IN Text(lead, TruncateAt - lead + EllipsisLen, 0)

\* lines 281-284: the text of a node of an oversized body
TruncateText(text) == IF StrLen(text) > TruncateAt THEN Truncated(text) ELSE text

\* characters of JSON.stringify of a list of nodes, counting of each node
\* only its text between quotes (ids, types and edges make it longer)
RECURSIVE JsonLength(_)
JsonLength(nodes) ==
    IF Len(nodes) = 0 THEN 2
    ELSE StrLen(nodes[1].text) + 2 + JsonLength(Tail(nodes))

\* line 273: Buffer.byteLength(JSON.stringify(body), 'utf8'); a body that
\* is a string already is put between quotes once more
ResponseSize(body) ==
    IF body.type = "string" THEN JsonLength(body.value[body.list]) + 2
    ELSE JsonLength(body.value[body.list])

\* lines 271-287: the res.send installed by limitResponseSize: what it
\* hands to the original res.send
send(body) ==
    IF /\ ResponseSize(body) > MaxResponseBytes
       /\ body.type = "object"
       /\ "nodes" \in DOMAIN body.value
    THEN [body EXCEPT !.value.nodes =
             [i \in 1..Len(@) |-> [@[i] EXCEPT !.text = TruncateText(@)]]]
    ELSE body

\* index.ts lines 159, 213 and 293: res.json(obj) of Express serialises obj
\* and calls this.send with the resulting string
json(value, list) == send([type |-> "string", value |-> value, list |-> list])

\* node texts of the bodies: at and just above the truncation length, and
\* one that exceeds the ceiling by itself
SendTexts ==
    { Text(0, TruncateAt, 0), Text(0, TruncateAt + 1, 0),
      Text(1, TruncateAt, 1), Text(0, MaxResponseBytes, 0) }

SendNodeLists ==
    UNION {[1..n -> {ResponseNode(0, [text |-> t, persona |-> "optimist",
                                      color |-> NoColor], NoId) : t \in SendTexts}] :
              n \in 1..MaxSendNodes}

\* the bodies of the three graph responses, index.ts lines 159-163,
\* 213-217 and 293-296, and the field that holds their nodes
GraphBody(kind, nodes) ==
    IF kind = "branch"
    THEN [value |-> [newNodes |-> nodes, newEdges |-> <<>>], list |-> "newNodes"]
    ELSE [value |-> [sessionId |-> 0, nodes |-> nodes, edges |-> <<>>], list |-> "nodes"]

SendInit ==
    /\ SvcEmpty
    /\ GenIdle
    /\ reqs = [r \in Slots |-> IdleReq]
    /\ LimIdle
    /\ CliIdle

\* a handler answers with res.json: status 200 unless set otherwise
GraphResponse(kind) ==
    /\ \E nodes \in SendNodeLists :
        LET b == GraphBody(kind, nodes)
            out == json(b.value, b.list)
        IN sent' = [kind |-> kind, status |-> 200, given |-> nodes,
                    size |-> ResponseSize([type |-> "string", value |-> b.value,
                                           list |-> b.list]),
                    out |-> out.value[b.list]]
    /\ UNCHANGED <<hits, lastReq, genVars, svcVars, reqs, cliVars, d3Vars>>

SendNext ==
    \/ GraphResponse("brainstorm")
    \/ GraphResponse("session")
    \/ GraphResponse("branch")

SpecSend == SendInit /\ [][SendNext]_vars

----------------------------------------------------------------------------
(* The client: PromptInput.handleSubmit and onNodeClick send a request,     *)
(* the server answers it or the fetch fails, and the handler's continuation *)
(* applies the answer to the store.  The server of this specification runs  *)
(* without an API key, so that every answer carries the fallback responses. *)

\* requests the client sends in one run
MaxClientRequests == 3

\* prompt.trim() of the prompts typed: empty, or one character
ClientPrompts == {EmptyText, Text(0, 1, 0)}

\* PromptInput.tsx line 32: useGraphStore() has no selectedNodeId field
selectedNodeId == <<>>

\* lines 46-47 (and 458-459): setLoading(true); setError(null);
BeforeAwait(state) == setError(setLoading(state, TRUE), NoError)

\* PromptInput.tsx lines 71 and 472: the message set by the catch block
FailureMessage(kind) ==
    IF kind = "create"
    THEN "Failed to generate personality perspectives. Please try again."
    ELSE "Failed to expand idea. Please try again."

\* a branch answer applied only while the store still shows its session
OnResolved_IfCurrent(state, req, response) ==
    IF req.kind = "create"
    THEN setGraph(state, response.nodes, response.edges, response.sessionId)
    ELSE IF state.sessionId = req.sessionId
         THEN addNodes(state, response.newNodes, response.newEdges)
         ELSE state

\* lines 57 and 65 (and 467): what the try block does with the answer
OnResolved(state, req, response) ==
    IF req.kind = "create"
    THEN setGraph(state, response.nodes, response.edges, response.sessionId)
    ELSE addNodes(state, response.newNodes, response.newEdges)

\* lines 69-74 (and 470-475): catch, then finally
OnRejected(state, req) == setLoading(setError(state, FailureMessage(req.kind)), FALSE)

\* what the handler's closure holds of the store it was rendered with
Rendered(state) ==
    [nodes |-> state.nodes, edges |-> state.edges, sessionId |-> state.sessionId]

\* the requests whose answer or failure has not reached the handler yet
Awaited == {r \in 1..Len(inflight) : inflight[r].pc \in {"awaiting", "answered"}}

\* a request is sent only while the id budget covers its answer and the
\* answers of the requests still awaited
RoomForClientRequest ==
    /\ Len(inflight) < MaxClientRequests
    /\ nextId + IdsPerRequest * (1 + Cardinality(Awaited)) <= MaxIds

CliInit ==
    /\ SvcEmpty
    /\ genPrompt = EmptyText
    /\ genKey = "missing"
    /\ genPc = "idle"
    /\ genOutcome = NoneYet
    /\ genResponses = NoneYet
    /\ genResult = <<>>
    /\ upstreamCalls = NoCalls
    /\ reqs = [r \in Slots |-> IdleReq]
    /\ LimIdle
    /\ CliIdle

CliFrame == UNCHANGED <<genVars, lastOp, reqs, limVars, storeOp, d3Vars>>

\* PromptInput.tsx lines 80, 131 and 154: the Enter key submits only while
\* !isLoading, and the input and the button are disabled={isLoading}
FormEnabled(state) == ~state.isLoading

\* handleSubmit, lines 38-44: nothing typed, no request sent
SubmitEmpty ==
    /\ \E prompt \in ClientPrompts :
        /\ ~Truthy(prompt)
        /\ graphStore' = setError(graphStore, "Please enter a topic to explore")
    /\ UNCHANGED <<sessions, nextId, inflight>>
    /\ CliFrame

\* handleSubmit, lines 38-64: up to the await of createSession (with no
\* selectedNodeId the follow-up branch of line 50 is never the one taken)
SubmitSend ==
    /\ RoomForClientRequest
    /\ FormEnabled(graphStore)
    /\ \E prompt \in ClientPrompts :
        /\ Truthy(prompt)
        /\ selectedNodeId = <<>>
        /\ graphStore' = BeforeAwait(graphStore)
        /\ inflight' = Append(inflight,
              [pc |-> "awaiting", kind |-> "create", prompt |-> prompt,
               sessionId |-> NoId, nodeId |-> NoId, rendered |-> Rendered(graphStore)])
    /\ UNCHANGED <<sessions, nextId>>
    /\ CliFrame

\* onNodeClick, PromptInput.tsx lines 447-476: up to the await of
\* expandNode; without a session the handler throws and ends at once
NodeClick(i) ==
    /\ RoomForClientRequest
    /\ i \in 1..Len(graphStore.nodes)
    /\ graphStore.nodes[i].type # "prompt"
    /\ ~graphStore.isLoading
    /\ graphStore.nodes[i].persona # NoPersona
    /\ IF graphStore.sessionId = NoId
       THEN /\ graphStore' = OnRejected(BeforeAwait(graphStore), [kind |-> "branch"])
            /\ inflight' = Append(inflight, [pc |-> "handled", kind |-> "branch", ok |-> FALSE])
       ELSE /\ graphStore' = BeforeAwait(graphStore)
            /\ inflight' = Append(inflight,
                  [pc |-> "awaiting", kind |-> "branch", prompt |-> EmptyText,
                   sessionId |-> graphStore.sessionId, nodeId |-> graphStore.nodes[i].id,
                   rendered |-> Rendered(graphStore)])
    /\ UNCHANGED <<sessions, nextId>>
    /\ CliFrame

\* index.ts: the server handles the request and sends its answer
\* (POST /api/brainstorm lines 141-169, POST /api/branch lines 261-302)
ServerAnswers(r) ==
    /\ r \in 1..Len(inflight)
    /\ inflight[r].pc = "awaiting"
    /\ LET q == inflight[r]
           c == createSession(sessions, nextId, q.prompt,
                              generatePersonalityResponses(q.prompt, genKey, NoneYet))
       IN IF q.kind = "create"
          THEN /\ sessions' = c.store
               /\ nextId' = c.nextId
               /\ inflight' = [inflight EXCEPT ![r] =
                     [q EXCEPT !.pc = "answered"] @@
                     [response |-> [status |-> 200, sessionId |-> c.session.id,
                                    nodes |-> c.session.nodes, edges |-> c.session.edges]]]
          ELSE IF ~NodeFound(sessions, q.sessionId, q.nodeId)
          THEN /\ UNCHANGED <<sessions, nextId>>
               /\ inflight' = [inflight EXCEPT ![r] =
                     [q EXCEPT !.pc = "answered"] @@ [response |-> [status |-> 404]]]
          ELSE LET parentNode == FindNode(sessions[q.sessionId].nodes, q.nodeId)
                   b == addBranch(sessions, nextId, q.sessionId, q.nodeId,
                                  generatePersonalityBranch(parentNode[1].text, <<>>,
                                                            genKey, NoneYet),
                                  <<>>)
               IN /\ sessions' = b.store
                  /\ nextId' = b.nextId
                  /\ inflight' = [inflight EXCEPT ![r] =
                        [q EXCEPT !.pc = "answered"] @@
                        [response |-> [status |-> 200, newNodes |-> b.newNodes,
                                       newEdges |-> b.newEdges]]]
    /\ UNCHANGED graphStore
    /\ CliFrame

\* api.ts lines 86-98 and 131-147: fetch rejects (the network fails); the
\* handler resumes in its catch block
FetchRejects(r) ==
    /\ r \in 1..Len(inflight)
    /\ inflight[r].pc = "awaiting"
    /\ graphStore' = OnRejected(graphStore, inflight[r])
    /\ inflight' = [inflight EXCEPT ![r] =
          [pc |-> "handled", kind |-> inflight[r].kind, ok |-> FALSE]]
    /\ UNCHANGED <<sessions, nextId>>
    /\ CliFrame

\* the answer arrives: api.ts throws unless response.ok, and the handler
\* resumes after its await and runs to its end
Resume(r) ==
    /\ r \in 1..Len(inflight)
    /\ inflight[r].pc = "answered"
    /\ LET q == inflight[r]
           ok == q.response.status = 200
       IN /\ graphStore' = IF ok
                           THEN setLoading(OnResolved(graphStore, q, q.response), FALSE)
                           ELSE OnRejected(graphStore, q)
          /\ inflight' = [inflight EXCEPT ![r] =
                [pc |-> "handled", kind |-> q.kind, ok |-> ok]]
    /\ UNCHANGED <<sessions, nextId>>
    /\ CliFrame

CliNext ==
    \/ SubmitEmpty
    \/ SubmitSend
    \/ \E i \in 1..Len(graphStore.nodes) : NodeClick(i)
    \/ \E r \in 1..Len(inflight) : ServerAnswers(r)
    \/ \E r \in 1..Len(inflight) : FetchRejects(r)
    \/ \E r \in 1..Len(inflight) : Resume(r)

SpecClient == CliInit /\ [][CliNext]_vars

----------------------------------------------------------------------------
(* The store's actions called directly, with arguments that the store does  *)
(* not check: lists with repeated ids and with references to no node        *)

\* most nodes and edges, counted together, that the store is given
MaxStoreLen == 3

\* node arguments: a node whose parent is in no list, and a child of it;
\* a list may hold the same node, and so the same id, twice
NodeInputs ==
    { PromptNode(1, EmptyText, UnknownId),
      ResponseNode(2, [text |-> EmptyText, persona |-> "optimist", color |-> NoColor], 1) }

\* edge arguments: an edge between the two nodes, and one from a node in no list
EdgeInputs == { EdgeOf(3, 1, 2), EdgeOf(4, UnknownId, 2) }

\* the lists of at most n elements of a set
ListsUpTo(S, n) == UNION {[1..k -> S] : k \in 0..n}

\* sessionId arguments: undefined, or an id
SessionIdInputs == {NoId, 0}

StoreInit ==
    /\ SvcEmpty
    /\ GenIdle
    /\ reqs = [r \in Slots |-> IdleReq]
    /\ LimIdle
    /\ CliIdle

StoreFrame == UNCHANGED <<genVars, svcVars, reqs, limVars, inflight, d3Vars>>

CallSetGraph ==
    /\ \E nodes \in ListsUpTo(NodeInputs, MaxStoreLen),
          edges \in ListsUpTo(EdgeInputs, MaxStoreLen),
          sessionId \in SessionIdInputs :
        /\ Len(nodes) + Len(edges) <= MaxStoreLen
        /\ graphStore' = setGraph(graphStore, nodes, edges, sessionId)
        /\ storeOp' = [op |-> "setGraph", nodes |-> nodes, edges |-> edges,
                       sessionId |-> sessionId]
    /\ StoreFrame

CallAddNodes ==
    /\ \E newNodes \in ListsUpTo(NodeInputs, MaxStoreLen),
          newEdges \in ListsUpTo(EdgeInputs, MaxStoreLen) :
        /\ Len(graphStore.nodes) + Len(newNodes)
              + Len(graphStore.edges) + Len(newEdges) <= MaxStoreLen
        /\ graphStore' = addNodes(graphStore, newNodes, newEdges)
        /\ storeOp' = [op |-> "addNodes", newNodes |-> newNodes, newEdges |-> newEdges]
    /\ StoreFrame

CallSetLoading ==
    /\ \E isLoading \in BOOLEAN :
        /\ graphStore' = setLoading(graphStore, isLoading)
        /\ storeOp' = [op |-> "setLoading", isLoading |-> isLoading]
    /\ StoreFrame

CallSetError ==
    /\ \E error \in {NoError, "Failed to expand idea. Please try again."} :
        /\ graphStore' = setError(graphStore, error)
        /\ storeOp' = [op |-> "setError", error |-> error]
    /\ StoreFrame

CallClearGraph ==
    /\ graphStore' = clearGraph(graphStore)
    /\ storeOp' = [op |-> "clearGraph"]
    /\ StoreFrame

\* GraphCanvas.tsx lines 268-278: the overlay is shown for a node of the store
CallShowOverlay ==
    /\ \E i \in 1..Len(graphStore.nodes) :
        /\ graphStore' = showOverlay(graphStore, graphStore.nodes[i])
        /\ storeOp' = [op |-> "showOverlay", node |-> graphStore.nodes[i]]
    /\ StoreFrame

CallHideOverlay ==
    /\ graphStore' = hideOverlay(graphStore)
    /\ storeOp' = [op |-> "hideOverlay"]
    /\ StoreFrame

StoreNext ==
    \/ CallSetGraph
    \/ CallAddNodes
    \/ CallSetLoading
    \/ CallSetError
    \/ CallClearGraph
    \/ CallShowOverlay
    \/ CallHideOverlay

SpecStore == StoreInit /\ [][StoreNext]_vars

----------------------------------------------------------------------------
(* D3ForceGraph.tsx and useD3ForceSimulation.ts: the force simulation, the  *)
(* selection and the viewport lock. A node's id is its place in the store's *)
(* list; a point is <<x, y>>; a node's fixed point (fx, fy) is <<>> for     *)
(* null or <<point>>.                                                       *)

\* main.tsx (forceConfig) line 225: RENDERING_CONFIG.SETTLEMENT_DELAY
SettlementDelay == 500
\* main.tsx line 231: RENDERING_CONFIG.FIXED_POSITION_RELEASE_DELAY
FixedPositionReleaseDelay == 300
\* main.tsx line 213: ZOOM_CONFIG.CENTER_DURATION
CenterDuration == 800
\* useD3ForceSimulation.ts line 505: the delay of lockTimeout
LockDelay == 600

\* rebuilds of the simulation after which the store and the selection rest
MaxBuilds == 3

\* sizes of the store's node list as it grows: the first graph, then one branch
GraphSizes == { 2, 3 }

\* lines 139-140, 203-204, 560-561; d3Utils.ts lines 137-138
Centre(size) == << size[1] \div 2, size[2] \div 2 >>

\* where the forces carry a free node: a point that is no window's centre
Drift == <<1, 1>>


\* graphService.ts lines 75, 84 and 143: every node comes with position
\* { x: 0, y: 0 }; the first node is the prompt
GraphNode(id) ==
    [id |-> id, type |-> IF id = 1 THEN "prompt" ELSE "response",
     position |-> <<0, 0>>]

\* lines 101-110: the positions of the nodes of the simulation in place
existingPositions(sim) ==
    IF sim.built THEN [i \in DOMAIN sim.nodes |-> sim.nodes[i].at] ELSE <<>>

\* a conversion that starts every node at the centre
convertToD3Nodes_AllAtCentre(nodes, existing, size) ==
    [i \in 1..Len(nodes) |->
        [id |-> nodes[i].id, type |-> nodes[i].type,
         at |-> Centre(size), fixed |-> <<Centre(size)>>]]

\* d3Utils.ts lines 131-182, without the sizes of the boxes
convertToD3Nodes(nodes, existing, size) ==
    [i \in 1..Len(nodes) |->
        LET hasValidPosition == nodes[i].position # <<0, 0>>
            initial == IF nodes[i].id \in DOMAIN existing
                       THEN existing[nodes[i].id]
                       ELSE IF hasValidPosition THEN nodes[i].position
                            ELSE Centre(size)
        IN [id |-> nodes[i].id, type |-> nodes[i].type,
            at |-> initial, fixed |-> <<initial>>]]

\* lines 317-332: the opacity each node group is created with
InitialOpacity(d3Nodes, existing) ==
    [i \in DOMAIN d3Nodes |->
        IF Len(existing) = 0 THEN 0
        ELSE IF d3Nodes[i].id \in DOMAIN existing THEN 1 ELSE 0]

\* lines 447-450: the nodes the settlement timer of a simulation reveals
RevealedBySettlement(d3Nodes, existing) ==
    { d3Nodes[i].id : i \in { j \in DOMAIN d3Nodes :
          Len(existing) = 0 \/ d3Nodes[j].id \notin DOMAIN existing } }

\* lines 91-160, 316-335: the simulation the first effect creates from the
\* props and the window
CreateSimulation(sim, nodes, size) ==
    LET existing == existingPositions(sim)
        d3Nodes == convertToD3Nodes(nodes, existing, size)
    IN [built |-> TRUE, build |-> sim.build + 1, size |-> size,
        nodes |-> d3Nodes, opacity |-> InitialOpacity(d3Nodes, existing)]

\* lines 438-470: the two timeouts the first effect sets
SimulationTimers(sim, newSim) ==
    { [kind |-> "settle", build |-> newSim.build, node |-> NoId,
       reveal |-> RevealedBySettlement(newSim.nodes, existingPositions(sim)),
       centre |-> <<0, 0>>, remaining |-> SettlementDelay],
      [kind |-> "release", build |-> newSim.build, node |-> NoId, reveal |-> {},
       centre |-> <<0, 0>>, remaining |-> FixedPositionReleaseDelay] }

\* lines 498-505: the timeout the selection effect sets
LockTimer(nodeId) ==
    [kind |-> "lock", build |-> 0, node |-> nodeId, reveal |-> {},
     centre |-> <<0, 0>>, remaining |-> LockDelay]

\* lines 527-534, and lines 463-466 for the nodes of one simulation
ReleaseAll(sim) ==
    [sim EXCEPT !.nodes = [i \in DOMAIN @ |-> [@[i] EXCEPT !.fixed = <<>>]]]

\* lines 240-243 and 581-584: fx, fy, x and y of the node with this id
FixAt(sim, nodeId, point) ==
    [sim EXCEPT !.nodes = [i \in DOMAIN @ |->
        IF @[i].id = nodeId THEN [@[i] EXCEPT !.at = point, !.fixed = <<point>>]
        ELSE @[i]]]

HasNode(sim, nodeId) == \E i \in DOMAIN sim.nodes : sim.nodes[i].id = nodeId

\* d3-transition and d3-zoom: a new transition of the svg, a zoom gesture
\* and zoom.transform on a selection interrupt the transition that runs
Interrupted(pending) == { t \in pending : t.kind # "animation" }

\* lines 460-470: the release timeout of a simulation that was replaced
\* reaches only the nodes of that simulation, which nothing reads any more
Superseded(pending) == { t \in pending : t.kind # "release" }

RoomForBuild == simulation.build < MaxBuilds

RenderInit ==
    /\ SvcEmpty
    /\ GenIdle
    /\ reqs = [r \in Slots |-> IdleReq]
    /\ LimIdle
    /\ CliIdle

RenderFrame == UNCHANGED <<genVars, svcVars, reqs, limVars, cliVars>>

\* graphStore.ts setGraph and addNodes, seen from the renderer: the nodes
\* prop changes, the first effect is cleaned up and runs again (line 478);
\* the selection effect does not run (line 545)
GraphArrives(size) ==
    /\ RoomForBuild
    /\ size > Len(graphNodes)
    /\ LET nodes == [i \in 1..size |-> GraphNode(i)]
           newSim == CreateSimulation(simulation, nodes, viewport)
       IN /\ graphNodes' = nodes
          /\ simulation' = newSim
          /\ timers' = Superseded(timers) \cup SimulationTimers(simulation, newSim)
          /\ renderOp' = [op |-> "graph"]
    /\ UNCHANGED <<selectedNode, viewport, isViewportLocked, lockedNodeId>>
    /\ RenderFrame

\* lines 483-545: the selection effect, run after the first effect with the
\* new selection; the store's setSelectedNode is taken to set selectedNodeId
SelectionEffect(selected, sim, pending) ==
    IF selected # NoId
    THEN [sim |-> sim, timers |-> pending \cup {LockTimer(selected)},
          locked |-> isViewportLocked, lockedNode |-> lockedNodeId]
    ELSE IF isViewportLocked
         THEN [sim |-> ReleaseAll(sim), timers |-> pending,
               locked |-> FALSE, lockedNode |-> NoId]
         ELSE [sim |-> sim, timers |-> pending,
               locked |-> isViewportLocked, lockedNode |-> lockedNodeId]

\* the store's setSelectedNode, which D3ForceGraph.tsx takes from
\* useGraphStore (lines 37-44) and graphStore.ts does not define: the
\* selectedNodeId the store holds after the call
setSelectedNode(nodeId) == nodeId

\* D3ForceGraph.tsx lines 59-75 handleNodeClick, then the render it causes:
\* the cleanup of the selection effect clears the pending lock timeout
\* (lines 507-510), the first effect builds a simulation (selectedNodeId is
\* one of its dependencies, line 478), the selection effect runs
NodeClick_Render(i) ==
    /\ simulation.built
    /\ i \in DOMAIN simulation.nodes
    /\ IF simulation.nodes[i].type = "prompt"
       THEN /\ renderOp' = [op |-> "clickIgnored"]
            /\ UNCHANGED <<graphNodes, selectedNode, viewport, simulation,
                           isViewportLocked, lockedNodeId, timers>>
       ELSE /\ RoomForBuild
            /\ LET nodeId == simulation.nodes[i].id
                   selected == IF selectedNode = nodeId THEN setSelectedNode(NoId)
                               ELSE setSelectedNode(nodeId)
                   newSim == CreateSimulation(simulation, graphNodes, viewport)
                   kept == { t \in Superseded(timers) : t.kind # "lock" }
                   after == SelectionEffect(selected, newSim,
                                kept \cup SimulationTimers(simulation, newSim))
               IN /\ selectedNode' = selected
                  /\ simulation' = after.sim
                  /\ timers' = after.timers
                  /\ isViewportLocked' = after.locked
                  /\ lockedNodeId' = after.lockedNode
                  /\ renderOp' = [op |-> IF selected = NoId THEN "deselect" ELSE "select"]
            /\ UNCHANGED <<graphNodes, viewport>>
    /\ RenderFrame

\* a resize handler that leaves the locked node where it is
handleResize_ForcesOnly(sim, size) == [sim |-> sim, interrupts |-> FALSE]

\* lines 550-617: handleResize
handleResize(sim, size) ==
    IF ~sim.built THEN [sim |-> sim, interrupts |-> FALSE]
    ELSE IF isViewportLocked /\ lockedNodeId # NoId /\ HasNode(sim, lockedNodeId)
         THEN [sim |-> FixAt(sim, lockedNodeId, Centre(size)), interrupts |-> TRUE]
         ELSE [sim |-> sim, interrupts |-> FALSE]

\* the window is resized
Resize(size) ==
    /\ size # viewport
    /\ viewport' = size
    /\ LET after == handleResize(simulation, size)
       IN /\ simulation' = after.sim
          /\ timers' = IF after.interrupts THEN Interrupted(timers) ELSE timers
    /\ renderOp' = [op |-> "resize"]
    /\ UNCHANGED <<graphNodes, selectedNode, isViewportLocked, lockedNodeId>>
    /\ RenderFrame

Due(t) == t \in timers /\ t.remaining = 0

\* time passes until the next timeout or the end of the transition
Elapse ==
    /\ timers # {}
    /\ \A t \in timers : t.remaining > 0
    /\ LET d == CHOOSE d \in { t.remaining : t \in timers } :
                    \A t \in timers : d <= t.remaining
       IN timers' = { [t EXCEPT !.remaining = @ - d] : t \in timers }
    /\ renderOp' = [op |-> "elapse"]
    /\ UNCHANGED <<graphNodes, selectedNode, viewport, simulation, isViewportLocked,
                   lockedNodeId>>
    /\ RenderFrame

\* lines 438-456: the settlement timeout of a simulation; the node groups of
\* a simulation that was replaced are no longer on the page
SettlementElapsed(t) ==
    /\ Due(t)
    /\ t.kind = "settle"
    /\ timers' = timers \ {t}
    /\ simulation' =
         IF t.build = simulation.build
            /\ \E i \in DOMAIN simulation.opacity : simulation.opacity[i] = 0
         THEN [simulation EXCEPT !.opacity = [i \in DOMAIN @ |->
                  IF simulation.nodes[i].id \in t.reveal THEN 1 ELSE @[i]]]
         ELSE simulation
    /\ renderOp' = [op |-> "settle"]
    /\ UNCHANGED <<graphNodes, selectedNode, viewport, isViewportLocked,
                   lockedNodeId>>
    /\ RenderFrame

\* lines 460-470: the release timeout of a simulation clears fx and fy of
\* that simulation's nodes
ReleaseElapsed(t) ==
    /\ Due(t)
    /\ t.kind = "release"
    /\ timers' = timers \ {t}
    /\ simulation' = IF t.build = simulation.build THEN ReleaseAll(simulation)
                     ELSE simulation
    /\ renderOp' = [op |-> "release"]
    /\ UNCHANGED <<graphNodes, selectedNode, viewport, isViewportLocked,
                   lockedNodeId>>
    /\ RenderFrame

\* lines 498-505 and 186-225: the lock timeout calls lockViewportToNode of
\* the simulation in place, which starts the centring transition towards
\* the centre of the window as it was when that simulation was created
LockElapsed(t) ==
    /\ Due(t)
    /\ t.kind = "lock"
    /\ timers' =
         IF /\ HasNode(simulation, t.node)
            /\ \A i \in DOMAIN simulation.nodes :
                  simulation.nodes[i].id = t.node =>
                      simulation.nodes[i].at[1] # 0 /\ simulation.nodes[i].at[2] # 0
         THEN Interrupted(timers \ {t}) \cup
                  { [kind |-> "animation", build |-> simulation.build,
                     node |-> t.node, reveal |-> {},
                     centre |-> Centre(simulation.size),
                     remaining |-> CenterDuration] }
         ELSE timers \ {t}
    /\ renderOp' = [op |-> "lock"]
    /\ UNCHANGED <<graphNodes, selectedNode, viewport, simulation, isViewportLocked,
                   lockedNodeId>>
    /\ RenderFrame

\* lines 229-262: the end of the centring transition fixes the node of the
\* simulation that started it and locks the viewport
AnimationEnd(t) ==
    /\ Due(t)
    /\ t.kind = "animation"
    /\ timers' = timers \ {t}
    /\ simulation' = IF t.build = simulation.build
                     THEN FixAt(simulation, t.node, t.centre)
                     ELSE simulation
    /\ isViewportLocked' = TRUE
    /\ lockedNodeId' = t.node
    /\ renderOp' = [op |-> "animationEnd"]
    /\ UNCHANGED <<graphNodes, selectedNode, viewport>>
    /\ RenderFrame

\* lines 163-174: the filter of the zoom behaviour
ZoomEnabled == ~isViewportLocked

\* lines 400-404: the filter of the drag behaviour
DragEnabled == ~isViewportLocked

\* the user pans or zooms the background
ZoomGesture ==
    /\ simulation.built
    /\ ZoomEnabled
    /\ timers' = Interrupted(timers)
    /\ renderOp' = [op |-> "zoom"]
    /\ UNCHANGED <<graphNodes, selectedNode, viewport, simulation, isViewportLocked,
                   lockedNodeId>>
    /\ RenderFrame

\* lines 400-418: a drag of a node from pointer down to pointer up: fx and
\* fy follow the pointer and are cleared at the end
DragGesture(i) ==
    /\ simulation.built
    /\ i \in DOMAIN simulation.nodes
    /\ DragEnabled
    /\ simulation.nodes[i].at # Drift
    /\ simulation' = [simulation EXCEPT !.nodes[i].at = Drift, !.nodes[i].fixed = <<>>]
    /\ renderOp' = [op |-> "drag"]
    /\ UNCHANGED <<graphNodes, selectedNode, viewport, isViewportLocked,
                   lockedNodeId, timers>>
    /\ RenderFrame

\* lines 426-435 and d3-force: a tick leaves a fixed node at its fixed
\* point and carries a free node where the forces take it
SimulationTick(i) ==
    /\ simulation.built
    /\ i \in DOMAIN simulation.nodes
    /\ simulation.nodes[i].fixed = <<>>
    /\ simulation.nodes[i].at # Drift
    /\ simulation' = [simulation EXCEPT !.nodes[i].at = Drift]
    /\ renderOp' = [op |-> "tick"]
    /\ UNCHANGED <<graphNodes, selectedNode, viewport, isViewportLocked,
                   lockedNodeId, timers>>
    /\ RenderFrame

RenderNext ==
    \/ \E size \in GraphSizes : GraphArrives(size)
    \/ \E i \in 1..Len(graphNodes) : NodeClick_Render(i)
    \/ \E size \in Viewports : Resize(size)
    \/ Elapse
    \/ \E t \in timers : SettlementElapsed(t)
    \/ \E t \in timers : ReleaseElapsed(t)
    \/ \E t \in timers : LockElapsed(t)
    \/ \E t \in timers : AnimationEnd(t)
    \/ ZoomGesture
    \/ \E i \in 1..Len(graphNodes) : DragGesture(i)
    \/ \E i \in 1..Len(graphNodes) : SimulationTick(i)

SpecRender == RenderInit /\ [][RenderNext]_vars

----------------------------------------------------------------------------
(* Properties of generatePersonalityResponses                               *)

GenCalled == genPc = "done" /\ GenAIAvailable(genKey)

\* C1: whatever the prompt, the key state and the three upstream outcomes,
\* the returned list has exactly 3 responses, of personas optimist,
\* pessimist, realist in that order, each with its persona's colour.
C1_ThreeOrderedResponses ==
    genPc = "done" =>
        /\ Len(genResult) = 3
        /\ \A i \in 1..3 :
            /\ genResult[i].persona = <<"optimist", "pessimist", "realist">>[i]
            /\ genResult[i].color = <<"green", "red", "grey">>[i]

\* a finished call where one persona threw, one answered a text that the
\* callback accepts and the filter drops, and one answered a long text
C1_Witness ==
    /\ GenCalled
    /\ Len(genResult) = 3
    /\ genOutcome[1][1].kind = "throw"
    /\ genOutcome[2][1].kind = "text"
    /\ StrLen(Trim(genOutcome[2][1].text)) = MinCleanedLen
    /\ genOutcome[3][1].kind = "text"
    /\ StrLen(Trim(genOutcome[3][1].text)) > ValidLenAbove

\* what the claim C6 expects of persona i
C6_Expected(i) ==
    LET o == genOutcome[i][1]
    IN IF o.kind # "text" \/ StrLen(Trim(o.text)) < 10
       THEN getPersonalityFallback(PERSONAS[i].name, genPrompt).text
       ELSE Trim(o.text)

\* C6: per persona, the returned text is the fallback when the upstream call
\* throws or yields fewer than 10 trimmed characters, and the trimmed
\* upstream text in every other case.
C6_FallbackBelowTen ==
    GenCalled => \A i \in PersonaIdx : genResult[i].text = C6_Expected(i)

----------------------------------------------------------------------------
(* Properties of the graph service                                          *)

IsPrefix(a, b) == Len(a) <= Len(b) /\ SubSeq(b, 1, Len(a)) = a

NodeIds(session) == {session.nodes[i].id : i \in 1..Len(session.nodes)}

\* a session holding a follow-up prompt node that has children of its own
HasFollowUpWithChildren(session) ==
    \E i, j \in 1..Len(session.nodes) :
        /\ session.nodes[i].type = "prompt"
        /\ session.nodes[i].parentId # NoId
        /\ session.nodes[j].parentId = session.nodes[i].id

\* C2: in every session, every node but the first (the initial prompt) has
\* a parentId that is the id of a node of the same session.
C2_ParentsExist ==
    \A s \in DOMAIN sessions :
        \A i \in 2..Len(sessions[s].nodes) :
            sessions[s].nodes[i].parentId \in NodeIds(sessions[s])

\* two branches, the second on a node the first one created, one with
\* follow-up text
C2_Witness ==
    \E s \in DOMAIN sessions :
        /\ Len(sessions[s].nodes) >= 10
        /\ HasFollowUpWithChildren(sessions[s])
        /\ \E i \in 5..Len(sessions[s].nodes), j \in 1..Len(sessions[s].nodes) :
              /\ j > i
              /\ sessions[s].nodes[j].parentId = sessions[s].nodes[i].id

EdgesFor(session, node) ==
    {k \in 1..Len(session.edges) :
        /\ session.edges[k].source = node.parentId
        /\ session.edges[k].target = node.id}

\* C3: the edge list mirrors parentId: each node with a parentId has exactly
\* one edge parentId -> id, and every edge is the edge of such a node.
C3_EdgesMirrorParents ==
    \A s \in DOMAIN sessions :
        LET ses == sessions[s]
        IN /\ \A i \in 1..Len(ses.nodes) :
                 ses.nodes[i].parentId # NoId =>
                     Cardinality(EdgesFor(ses, ses.nodes[i])) = 1
           /\ \A k \in 1..Len(ses.edges) :
                 \E i \in 1..Len(ses.nodes) :
                     /\ ses.nodes[i].parentId # NoId
                     /\ k \in EdgesFor(ses, ses.nodes[i])
           /\ Len(ses.edges) = Cardinality({i \in 1..Len(ses.nodes) :
                                               ses.nodes[i].parentId # NoId})

\* a session whose edges include one that leaves a follow-up prompt node
C3_Witness ==
    \E s \in DOMAIN sessions :
        \E k \in 1..Len(sessions[s].edges), i \in 2..Len(sessions[s].nodes) :
            /\ sessions[s].nodes[i].type = "prompt"
            /\ sessions[s].edges[k].source = sessions[s].nodes[i].id

\* C4: a session once stored stays stored, and its node and edge lists only
\* grow at the end: each step leaves the old lists as prefixes of the new.
C4_AppendOnly ==
    [][\A s \in DOMAIN sessions :
          /\ s \in DOMAIN sessions'
          /\ IsPrefix(sessions[s].nodes, sessions'[s].nodes)
          /\ IsPrefix(sessions[s].edges, sessions'[s].edges)]_vars

\* two sessions, one of them grown by branches of both kinds, then read
C4_Witness ==
    /\ Cardinality(DOMAIN sessions) >= 2
    /\ \E s \in DOMAIN sessions : Len(sessions[s].nodes) > 4
    /\ lastOp.op = "getSessionStats"
    /\ lastOp.stats.totalSessions = 2

\* C5: addBranch on a session id not in the store, or on a node id that is
\* no node of that session, throws the not-found error and leaves every
\* session as it was.
C5_NotFoundNoChange ==
    [][lastOp'.op = "addBranch" =>
        LET sid == lastOp'.sessionId
            pid == lastOp'.parentNodeId
        IN /\ sid \notin DOMAIN sessions =>
                 lastOp'.error = "Session not found" /\ sessions' = sessions
           /\ (sid \in DOMAIN sessions /\ pid \notin NodeIds(sessions[sid])) =>
                 lastOp'.error = "Parent node not found" /\ sessions' = sessions]_vars

\* addBranch has failed on a node id that exists, but in another session
C5_Witness ==
    /\ lastOp.op = "addBranch"
    /\ lastOp.error = "Parent node not found"
    /\ lastOp.parentNodeId \in NodeIdsOf(sessions)
    /\ \E s \in DOMAIN sessions : Len(sessions[s].nodes) > 4

\* C7: createSession with 3 responses stores, under an id not in the store
\* before, a session of 4 nodes (the prompt node, of type prompt, without
\* parentId or persona, then one response node per response, in order) and
\* 3 edges, each response node a child of the prompt node; getSession with
\* an id of the store yields the stored session.
C7_CreateSessionShape ==
    [][/\ (lastOp'.op = "createSession" /\ Len(lastOp'.responses) = 3) =>
            LET ses == lastOp'.session
                given == lastOp'.responses
            IN /\ ses.id \notin DOMAIN sessions
               /\ ses.id \in DOMAIN sessions'
               /\ sessions'[ses.id] = ses
               /\ getSession(sessions', ses.id) = <<ses>>
               /\ Len(ses.nodes) = 4
               /\ Len(ses.edges) = 3
               /\ ses.nodes[1].type = "prompt"
               /\ ses.nodes[1].text = lastOp'.prompt
               /\ ses.nodes[1].parentId = NoId
               /\ ses.nodes[1].persona = NoPersona
               /\ \A i \in 1..3 :
                    /\ ses.nodes[i + 1].type = "response"
                    /\ ses.nodes[i + 1].text = given[i].text
                    /\ ses.nodes[i + 1].persona = given[i].persona
                    /\ ses.nodes[i + 1].parentId = ses.nodes[1].id
       /\ (lastOp'.op = "getSession" /\ lastOp'.sessionId \in DOMAIN sessions) =>
            lastOp'.result = <<sessions[lastOp'.sessionId]>>]_vars

\* a second session has been created and then read back with getSession
C7_Witness ==
    /\ lastOp.op = "getSession"
    /\ Len(lastOp.result) = 1
    /\ Cardinality(DOMAIN sessions) = 2
    /\ \A s \in DOMAIN sessions : s <= lastOp.result[1].id
    /\ Len(lastOp.result[1].nodes) = 4

\* C8: addBranch with 3 responses on an existing session and node returns
\* exactly what it appended: without follow-up text 3 response nodes, all
\* children of the given node, and 3 edges; with follow-up text 4 nodes, a
\* prompt node that is a child of the given node and then 3 response nodes
\* that are children of that prompt node, and 4 edges.
C8_BranchReturnsAppended ==
    [][(lastOp'.op = "addBranch" /\ lastOp'.error = "" /\ Len(lastOp'.responses) = 3) =>
        LET sid == lastOp'.sessionId
            pid == lastOp'.parentNodeId
            nn == lastOp'.newNodes
            ne == lastOp'.newEdges
            withText == lastOp'.followUp # <<>> /\ lastOp'.followUp # <<EmptyText>>
        IN /\ sessions'[sid].nodes = sessions[sid].nodes \o nn
           /\ sessions'[sid].edges = sessions[sid].edges \o ne
           /\ ~withText =>
                /\ Len(nn) = 3 /\ Len(ne) = 3
                /\ \A i \in 1..3 : nn[i].type = "response" /\ nn[i].parentId = pid
           /\ withText =>
                /\ Len(nn) = 4 /\ Len(ne) = 4
                /\ nn[1].type = "prompt" /\ nn[1].parentId = pid
                /\ nn[1].id # pid
                /\ \A i \in 2..4 : nn[i].type = "response" /\ nn[i].parentId = nn[1].id]_vars

\* both kinds of branch have been made on one session, the last one with
\* follow-up text
C8_Witness ==
    /\ lastOp.op = "addBranch"
    /\ lastOp.error = ""
    /\ Len(lastOp.newNodes) = 4
    /\ Len(sessions[lastOp.sessionId].nodes) = 11

----------------------------------------------------------------------------
(* Properties of the two POST handlers                                      *)

\* the nodes of `new` that come after the nodes of `old`
Suffix(old, new) == SubSeq(new, Len(old) + 1, Len(new))

ResponseNodes(nodes) == SelectSeq(nodes, LAMBDA n : n.type = "response")
PromptNodes(nodes) == SelectSeq(nodes, LAMBDA n : n.type = "prompt")
FollowUpNodes(nodes) == SelectSeq(nodes, LAMBDA n : n.type = "prompt" /\ n.parentId # NoId)

\* exactly 3 response nodes, one for each persona
OnePerPersona(nodes) ==
    /\ Len(ResponseNodes(nodes)) = 3
    /\ \A p \in PersonaNames :
          Cardinality({i \in 1..Len(nodes) :
              nodes[i].type = "response" /\ nodes[i].persona = p}) = 1

RunAt(list, run, i) ==
    /\ i >= 1
    /\ i + Len(run) - 1 <= Len(list)
    /\ SubSeq(list, i, i + Len(run) - 1) = run

\* both runs lie in the list, one wholly before the other
DisjointRuns(list, run1, run2) ==
    \E i, j \in 1..Len(list) :
        /\ RunAt(list, run1, i)
        /\ RunAt(list, run2, j)
        /\ i + Len(run1) <= j \/ j + Len(run2) <= i

AnsweredBranch(r) ==
    reqs[r].pc = "done" /\ reqs[r].kind = "branch" /\ reqs[r].status = 200

\* C10: two POST /api/branch requests against the same session and node,
\* overlapping or not, are both answered with success, and afterwards the
\* session holds the nodes and the edges of both: each request's nodes are
\* one contiguous run of the node list, the runs do not interleave, and
\* the same holds for the edges.
C10_BothBranchesAppend ==
    /\ \A r \in Slots :
          (reqs[r].pc = "done" /\ reqs[r].kind = "branch") => reqs[r].status # 500
    /\ \A r1, r2 \in Slots :
          ( /\ r1 # r2
            /\ AnsweredBranch(r1)
            /\ AnsweredBranch(r2)
            /\ reqs[r1].sessionId = reqs[r2].sessionId
            /\ reqs[r1].nodeId = reqs[r2].nodeId ) =>
              LET session == sessions[reqs[r1].sessionId]
              IN /\ DisjointRuns(session.nodes, reqs[r1].newNodes, reqs[r2].newNodes)
                 /\ DisjointRuns(session.edges, reqs[r1].newEdges, reqs[r2].newEdges)

\* two answered branches of the same node that were both waiting for their
\* responses at the same time: each was accepted before the other appended
C10_Witness ==
    \E r1, r2 \in Slots :
        /\ r1 # r2
        /\ AnsweredBranch(r1)
        /\ AnsweredBranch(r2)
        /\ reqs[r1].sessionId = reqs[r2].sessionId
        /\ reqs[r1].nodeId = reqs[r2].nodeId
        /\ reqs[r1].seenNodes = reqs[r2].seenNodes
        /\ Len(sessions[reqs[r1].sessionId].nodes)
             = reqs[r1].seenNodes + Len(reqs[r1].newNodes) + Len(reqs[r2].newNodes)

----------------------------------------------------------------------------
(* Properties of the rate limiter                                           *)

\* requests of address ip to the path `path` counted in the current window
CountedFor(ip, path) == Hits(hits, <<ip, SubSeq(path, 2, Len(path))>>)

IsSessionGet(req) ==
    req.method = "GET" /\ StartsWith(req.path, <<"api", "session">>)

RECURSIVE SumHits(_, _)
SumHits(store, keys) ==
    IF keys = {} THEN 0
    ELSE LET k == CHOOSE x \in keys : TRUE
         IN store[k] + SumHits(store, keys \ {k})

\* requests of address ip counted in the current windows, whatever the
\* path, session retrievals left out
AddressHits(ip) ==
    SumHits(hits, {k \in DOMAIN hits : k[1] = ip /\ ~StartsWith(k[2], <<"session">>)})

C12_SessionGetNeverLimited ==
    ~(IsSessionGet(lastReq) /\ lastReq.status = 429)

----------------------------------------------------------------------------
(* Properties of the handlers' not-found answers                            *)

\* the store holds session sessionId and that session holds node nodeId
Names(sessionId, nodeId) ==
    /\ sessionId \in DOMAIN sessions
    /\ \E i \in 1..Len(sessions[sessionId].nodes) :
          sessions[sessionId].nodes[i].id = nodeId

\* slot r takes a valid POST /api/branch in this step
ValidBranchStep(r) ==
    /\ reqs[r].pc = "idle"
    /\ reqs'[r].pc # "idle"
    /\ reqs'[r].kind = "branch"
    /\ reqs'[r].pc = "done" => reqs'[r].status # 400

\* slot r takes a GET /api/session/:id in this step
SessionGetStep(r) ==
    /\ reqs[r].pc = "idle"
    /\ reqs'[r].pc = "done"
    /\ reqs'[r].kind = "session"

----------------------------------------------------------------------------
(* Termination and upstream calls of generatePersonalityResponses           *)

\* C14: every call of generatePersonalityResponses eventually returns its
\* 3 responses, also when an upstream call never completes.
C14_EventuallyReturns ==
    <>(genPc = "done" /\ Len(genResult) = 3)

\* C15: one invocation issues at most one upstream call per persona, so at
\* most 3 in total and none again after a failure or a short answer, and
\* no call at all when no client could be built.
C15_AtMostOneCallPerPersona ==
    /\ \A i \in PersonaIdx : upstreamCalls[i] <= 1
    /\ upstreamCalls[1] + upstreamCalls[2] + upstreamCalls[3] <= 3
    /\ genKey # "configured" => \A i \in PersonaIdx : upstreamCalls[i] = 0

\* the call has returned after one upstream call threw and another gave a
\* short answer; each persona was called once
C15_Witness ==
    /\ genPc = "done"
    /\ genKey = "configured"
    /\ genOutcome[1][1].kind = "throw"
    /\ genOutcome[2][1].kind = "text"
    /\ StrLen(Trim(genOutcome[2][1].text)) < 10
    /\ upstreamCalls = <<1, 1, 1>>

\* C16: every response text that generatePersonalityResponses returns is
\* longer than 10 characters, for every prompt, the empty one included,
\* whether the text is the upstream answer or a fallback.
C16_TextsLongerThanTen ==
    genPc = "done" =>
        /\ Len(genResult) = 3
        /\ \A i \in 1..Len(genResult) : StrLen(genResult[i].text) > 10

\* a call with the empty prompt has returned an upstream text of 11
\* characters next to the fallback for an answer of 10 characters
C16_Witness ==
    /\ genPc = "done"
    /\ genKey = "configured"
    /\ StrLen(genPrompt) = 0
    /\ genOutcome[1][1].kind = "text"
    /\ StrLen(Trim(genOutcome[1][1].text)) = 11
    /\ genResult[1].text = Trim(genOutcome[1][1].text)
    /\ genOutcome[2][1].kind = "text"
    /\ StrLen(Trim(genOutcome[2][1].text)) = 10
    /\ genResult[2].text # Trim(genOutcome[2][1].text)

----------------------------------------------------------------------------
(* The client's requests and the store                                      *)

\* request r's answer or failure is handled by this step
Handled(r) ==
    /\ r \in 1..Len(inflight)
    /\ inflight[r].pc \in {"awaiting", "answered"}
    /\ inflight'[r].pc = "handled"

\* the ids of the nodes in the client store
StoreNodeIds == {graphStore.nodes[i].id : i \in 1..Len(graphStore.nodes)}

\* the store nodes whose parentId names no node of the store
Orphans ==
    {i \in 1..Len(graphStore.nodes) :
        /\ graphStore.nodes[i].parentId # NoId
        /\ graphStore.nodes[i].parentId \notin StoreNodeIds}

(* C17: while a create-session or branch request has been sent and its      *)
(* answer or failure has not been handled yet, the store's isLoading is     *)
(* true; once every request has been handled it is false.                   *)
C17_LoadingWhileInFlight ==
    IF Awaited # {} THEN graphStore.isLoading ELSE ~graphStore.isLoading

(* C18: when the failure of a request is handled, the store's nodes, edges  *)
(* and sessionId are what they were when the request was sent, error is a   *)
(* message and isLoading is false.                                          *)
C18_FailureRestoresGraph ==
    [][\A r \in 1..Len(inflight) :
          (Handled(r) /\ ~inflight'[r].ok) =>
              /\ Rendered(graphStore') = inflight[r].rendered
              /\ graphStore'.error # NoError
              /\ ~graphStore'.isLoading]_vars

(* C19: no request is ever dropped: a request that was sent stays until it  *)
(* is handled, and the answer of a branch request is appended to whatever   *)
(* the store holds when it is handled, also when the store has been given   *)
(* another session's graph since the request was sent.                      *)
C19_StaleBranchStillApplied ==
    [][/\ Len(inflight') >= Len(inflight)
       /\ \A r \in 1..Len(inflight) :
            /\ inflight[r].pc # "handled" =>
                   inflight'[r].pc \in {inflight[r].pc, "answered", "handled"}
            /\ (/\ Handled(r)
                /\ inflight[r].pc = "answered"
                /\ inflight[r].kind = "branch"
                /\ inflight[r].response.status = 200) =>
                   /\ graphStore'.nodes = graphStore.nodes \o inflight[r].response.newNodes
                   /\ graphStore'.edges = graphStore.edges \o inflight[r].response.newEdges
                   /\ graphStore'.sessionId = graphStore.sessionId]_vars

\* a branch request sent under one session was handled with success after
\* setGraph installed another session, and the store holds nodes whose
\* parent is not in the store
C19_Witness ==
    /\ Orphans # {}
    /\ \E r \in 1..Len(inflight) :
        /\ inflight[r].pc = "handled"
        /\ inflight[r].kind = "branch"
        /\ inflight[r].ok
    /\ \E i \in Orphans : graphStore.nodes[i].id \notin
           {sessions[graphStore.sessionId].nodes[k].id :
               k \in 1..Len(sessions[graphStore.sessionId].nodes)}

(* C20: addNodes keeps the store's nodes and edges and appends the given    *)
(* ones in the given order, whatever their ids and references; setGraph     *)
(* installs the given nodes, edges and sessionId in place of the previous   *)
(* ones; both set error to null and leave every other field as it was.      *)
C20_StoreFrameEffects ==
    [][/\ storeOp'.op = "addNodes" =>
            graphStore' = [graphStore EXCEPT
                              !.nodes = @ \o storeOp'.newNodes,
                              !.edges = @ \o storeOp'.newEdges,
                              !.error = NoError]
       /\ storeOp'.op = "setGraph" =>
            graphStore' = [graphStore EXCEPT
                              !.nodes = storeOp'.nodes,
                              !.edges = storeOp'.edges,
                              !.sessionId = storeOp'.sessionId,
                              !.error = NoError]]_vars

\* addNodes has appended a node whose id the store already held and whose
\* parent is in no list, while the store was loading and showed the overlay
C20_Witness ==
    /\ storeOp.op = "addNodes"
    /\ Len(storeOp.newNodes) > 0
    /\ Len(graphStore.nodes) > Len(storeOp.newNodes)
    /\ \E i, j \in 1..Len(graphStore.nodes) :
        /\ i < j
        /\ graphStore.nodes[i].id = graphStore.nodes[j].id
    /\ Orphans # {}
    /\ graphStore.isLoading
    /\ graphStore.isOverlayVisible

(* C26: after clearGraph, from any prior state, the store holds its initial *)
(* values: no nodes, no edges, sessionId, error and overlayNode null,       *)
(* isOverlayVisible and isLoading false.                                    *)
C26_ClearGraphResets ==
    storeOp.op = "clearGraph" => graphStore = InitialState

(* C28: the client has at most one create-session or branch request that    *)
(* was sent and is not handled yet; while one is pending the prompt form    *)
(* starts no other.                                                         *)
C28_AtMostOneOutstanding == Cardinality(Awaited) <= 1

----------------------------------------------------------------------------
(* Shape of the sessions' graphs                                            *)

\* the node of the session with the given id, as a set of at most one
NodesWithId(session, id) ==
    {i \in 1..Len(session.nodes) : session.nodes[i].id = id}

\* following parentId from node i reaches the first node within k steps
RECURSIVE ReachesRoot(_, _, _)
ReachesRoot(session, i, k) ==
    IF i = 1 THEN TRUE
    ELSE IF k = 0 THEN FALSE
    ELSE \E j \in NodesWithId(session, session.nodes[i].parentId) :
            ReachesRoot(session, j, k - 1)

\* C29: every session's graph is a tree rooted at its initial prompt: the
\* first node is a prompt and the only node without parentId, there is one
\* edge less than there are nodes, following parentId from any node reaches
\* the first node, every response node has one of the three personas and
\* no prompt node has a persona.
C29_SessionIsTree ==
    \A s \in DOMAIN sessions :
        LET session == sessions[s]
            n == Len(session.nodes)
        IN /\ n >= 1
           /\ session.nodes[1].type = "prompt"
           /\ \A i \in 1..n : (session.nodes[i].parentId = NoId) <=> (i = 1)
           /\ Len(session.edges) = n - 1
           /\ \A i \in 1..n : ReachesRoot(session, i, n)
           /\ \A i \in 1..n :
                IF session.nodes[i].type = "response"
                THEN session.nodes[i].persona \in PersonaNames
                ELSE /\ session.nodes[i].type = "prompt"
                     /\ session.nodes[i].persona = NoPersona

\* a session grown by addBranch with a follow-up and by addSimpleBranch
\* with one response more than there are personas, the latter on a node
\* that a branch added
C29_Witness ==
    \E s \in DOMAIN sessions :
        LET session == sessions[s]
            n == Len(session.nodes)
        IN /\ lastOp.op = "addSimpleBranch"
           /\ lastOp.error = ""
           /\ lastOp.sessionId = s
           /\ n >= 2 + 2 * Len(PERSONAS) + 1
           /\ \E i \in 2..n : session.nodes[i].type = "prompt"
           /\ session.nodes[n].persona = "realist"
           /\ session.nodes[n - 1].persona = "realist"
           /\ \E j \in NodesWithId(session, session.nodes[n].parentId) : j > 1

\* C30: sessions are isolated: a step of the service changes the nodes or
\* edges of an existing session only if it is a successful addBranch (or
\* addSimpleBranch) on that very session; createSession and failing calls
\* change no existing session, and no session leaves the store.
C30_SessionsIsolated ==
    [][\A s \in DOMAIN sessions :
          /\ s \in DOMAIN sessions'
          /\ sessions'[s] # sessions[s] =>
                /\ lastOp'.op \in {"addBranch", "addSimpleBranch"}
                /\ lastOp'.sessionId = s
                /\ lastOp'.error = ""
      ]_vars

\* with two sessions in the store, the last call was a successful
\* addBranch with a follow-up on the older one
C30_Witness ==
    \E s, t \in DOMAIN sessions :
        /\ s < t
        /\ lastOp.op = "addBranch"
        /\ lastOp.error = ""
        /\ lastOp.sessionId = s
        /\ Len(lastOp.newNodes) = 1 + Len(PERSONAS)
        /\ Len(sessions[s].nodes) = 2 + 2 * Len(PERSONAS)
        /\ Len(sessions[t].nodes) = 1 + Len(PERSONAS)

----------------------------------------------------------------------------
(* Size of the responses                                                    *)

\* C21: whenever the serialized body of a graph response (session creation,
\* session retrieval or branch) exceeds 64 KB, the body sent has every node
\* text longer than 200 characters cut to its first 200 characters
\* followed by '...', and the response has no error status.
C21_OversizedBodyTruncated ==
    (sent.kind # "none" /\ sent.size > MaxResponseBytes) =>
        /\ sent.status = 200
        /\ Len(sent.out) = Len(sent.given)
        /\ \A i \in 1..Len(sent.given) :
              sent.out[i].text = TruncateText(sent.given[i].text)

----------------------------------------------------------------------------
(* The renderer: selection, viewport lock and settlement                    *)

\* fx, fy of the node with this id in the simulation in place
FixedOf(nodeId) ==
    { simulation.nodes[i].fixed : i \in { j \in DOMAIN simulation.nodes :
                                          simulation.nodes[j].id = nodeId } }

\* C22: selecting a response node leads, after the lock delay and the
\* centring animation, to a state in which that node's fixed coordinates are
\* the exact centre of the viewport and pan/zoom and drag are disabled;
\* deselecting leads to a state in which no node is fixed and pan/zoom is
\* enabled. Stated at the two moments the claim names: when the centring
\* animation of the selected node has ended, and when nothing is selected
\* and no timeout or transition is pending any more.
C22_SelectionLocksDeselectionFrees ==
    /\ (renderOp.op = "animationEnd" /\ lockedNodeId = selectedNode) =>
          /\ FixedOf(selectedNode) = { <<Centre(viewport)>> }
          /\ ~ZoomEnabled
          /\ ~DragEnabled
    /\ (simulation.built /\ selectedNode = NoId /\ timers = {}) =>
          /\ \A i \in DOMAIN simulation.nodes : simulation.nodes[i].fixed = <<>>
          /\ ZoomEnabled

C24_RebuildKeepsPositions ==
    [][simulation'.build # simulation.build =>
          \A i \in DOMAIN simulation'.nodes :
              simulation'.nodes[i].at =
                  IF simulation.built /\ simulation'.nodes[i].id \in DOMAIN simulation.nodes
                  THEN simulation.nodes[simulation'.nodes[i].id].at
                  ELSE Centre(viewport')]_vars

\* a rebuild that took over a node away from the centre and placed a new,
\* still hidden node at the centre
C24_Witness ==
    /\ renderOp.op = "graph"
    /\ simulation.build >= 2
    /\ \E i \in DOMAIN simulation.nodes :
          simulation.nodes[i].at = Drift /\ simulation.opacity[i] = 1
    /\ \E i \in DOMAIN simulation.nodes :
          simulation.nodes[i].at = Centre(viewport) /\ simulation.opacity[i] = 0

\* C25: after a structural change each new node is invisible from the
\* rebuild until the settlement delay has elapsed and visible afterwards,
\* whatever clicks, selections and rebuilds come in between.
C25_NewNodesHiddenUntilSettled ==
    \A i \in DOMAIN simulation.nodes :
        LET settling == \E t \in timers : /\ t.kind = "settle"
                                          /\ t.remaining > 0
                                          /\ simulation.nodes[i].id \in t.reveal
            awaited == \E t \in timers : /\ t.kind = "settle"
                                         /\ simulation.nodes[i].id \in t.reveal
        IN /\ settling => simulation.opacity[i] = 0
           /\ ~awaited => simulation.opacity[i] = 1

\* C27: if the viewport is locked then a node is selected and the locked
\* node is the selected node; the viewport is never left locked once the
\* selection is cleared.
C27_LockedMeansSelected ==
    isViewportLocked => (selectedNode # NoId /\ lockedNodeId = selectedNode)

====
